---------------------------- MODULE Spec2Model ----------------------------
(***************************************************************************)
(* A model of Legilimens (src/legilimens.hpp): the Name encoding, the      *)
(* intrusive registry of Category objects, the per-category stack of live  *)
(* variables with its cached top, and sample().                            *)
(*                                                                         *)
(* Pointers to Category objects are the object identities 1..MaxCategories *)
(* and NULL.  Text is a sequence of character codes 1..255; the C string   *)
(* terminator is implicit after the last element.                          *)
(***************************************************************************)
EXTENDS Integers, Sequences, FiniteSets, TLC

VARIABLES
    root,                       \* Category::getMutableListRoot()::root
    next_instance_in_list_,     \* Category::next_instance_in_list_, per object
    name_,                      \* Category::name_, per object
    type_descriptor_,           \* Category::type_descriptor_, per object
    live_variable_stack_,       \* Category::live_variable_stack_, per object
    live_variable_stack_top_,   \* Category::live_variable_stack_top_, per object
    life,                       \* per object: "unborn", "alive", "destroying", "dead"
    created,                    \* history: the objects in order of construction
    dtor_this,                  \* the object whose ~Category() is running, or NULL
    dtor_item,                  \* ~Category(): the local `item`
    dtor_pc,                    \* ~Category(): "none", "loop", "return"
    dtor_iterations,            \* history: completed iterations of the search loop
    dtor_before,                \* history: the list when ~Category() was entered
    q_op,                       \* the last registry query: "none", "byIndex", ...
    q_index,                    \* its index argument
    q_text,                     \* its text argument
    q_ret,                      \* the pointer or the number it returned
    cs_owner,                   \* the thread whose CriticalSectionLocker is held
    now,                        \* what getTimeFromCriticalSection() returns
    trapped,                    \* an assertion has failed: the program is aborted
    pc,                         \* per thread: where it is in its current call
    t_this,                     \* per thread: the Category of the current call
    t_location,                 \* per thread: pushVariable()'s argument
    s_data_size,                \* per thread: sample()'s local data_size
    s_ts,                       \* per thread: sample()'s local ts
    s_out,                      \* per thread: sample()'s local out
    s_success,                  \* per thread: sample()'s local success
    handles,                    \* per thread: its Probe objects, oldest first
    pushed,                     \* history, per Category: the locations pushed and
                                \* not yet popped, in the order of the critical
                                \* sections of the calls
    s_called_at,                \* history: the clock when sample() was called
    s_top_at_cs,                \* history: the cached top when sample() locked
    s_depth_at_cs,              \* history: Len(pushed) when sample() locked
    s_expect,                   \* history: the youngest of pushed at that time
    s_clock_reads,              \* history: calls of getTimeFromCriticalSection() in the call
    this_category_,             \* Probe<...>::this_category_, per probe type
    initialized,                \* per probe type: the dynamic initializer of
                                \* this_category_ has run
    phase,                      \* "static_init", "main", "exit": where the
                                \* program is in its life
    static_order,               \* the objects of static storage duration with
                                \* a destructor, in the order their
                                \* construction was completed
    f_op,                       \* the function of the library last applied to
    f_in,                       \*   the arguments f_in,
    f_out                       \*   and what it returned

listVars == <<root, next_instance_in_list_, name_, type_descriptor_, life, created,
              dtor_this, dtor_item, dtor_pc, dtor_iterations, dtor_before>>
stackVars == <<live_variable_stack_, live_variable_stack_top_>>
registryVars == <<listVars, stackVars>>
queryVars == <<q_op, q_index, q_text, q_ret>>
threadVars == <<cs_owner, now, trapped, pc, t_this, t_location, s_data_size, s_ts,
                s_out, s_success, handles>>
historyVars == <<pushed, s_called_at, s_top_at_cs, s_depth_at_cs, s_expect,
                 s_clock_reads>>

startupVars == <<this_category_, initialized, phase, static_order>>
callVars == <<f_op, f_in, f_out>>

vars == <<registryVars, queryVars, threadVars, historyVars, startupVars, callVars>>

-----------------------------------------------------------------------------
(* Bounds of the model *)

\* Number of Category objects the program may construct.
MaxCategories == 4

\* Iterations of the destructor's search loop that the model follows.
MaxSpin == 5

NULL == 0

\* What the storage of an object holds before its constructor has run
Uninitialized == -1

CategoryIds == 1..MaxCategories

-----------------------------------------------------------------------------
(* Name *)

NumberOfChunks == 4

\* sizeof(EncodedChunk) * 8 / 7 with a 64-bit EncodedChunk
CharactersPerChunk == (8 * 8) \div 7

MaxLength == CharactersPerChunk * NumberOfChunks

\* *p for a pointer p into the C string `text`: the terminator follows the text
CharAt(text, p) == IF p < Len(text) THEN text[p + 1] ELSE 0

\* A chunk is held as its CharactersPerChunk 7-bit fields, lowest bits first:
\* field j is bits 7j .. 7j+6 of the 64-bit EncodedChunk.
EmptyChunks == [k \in 0..(NumberOfChunks - 1) |-> [j \in 0..(CharactersPerChunk - 1) |-> 0]]

\* b[i / CharactersPerChunk] |= EncodedChunk(ch) << (7 * (i % CharactersPerChunk))
\* (the field is still zero when it is written, so the OR stores ch)
OrIntoChunk(b, i, ch) ==
    [b EXCEPT ![i \div CharactersPerChunk][i % CharactersPerChunk] = ch]

\* Mutant: at the end of the string the pointer stays (zero padding)
RECURSIVE encodeLoop_ZeroPadding(_, _, _, _)
encodeLoop_ZeroPadding(text, i, p, b) ==
    IF i >= MaxLength THEN b
    ELSE IF CharAt(text, p) # 0
         THEN encodeLoop_ZeroPadding(text, i + 1, p + 1, OrIntoChunk(b, i, CharAt(text, p) % 128))
         ELSE encodeLoop_ZeroPadding(text, i + 1, p, b)

RECURSIVE encodeLoop(_, _, _, _)
encodeLoop(text, i, p, b) ==
    IF i >= MaxLength THEN b
    ELSE IF CharAt(text, p) # 0
         THEN encodeLoop(text, i + 1, p + 1, OrIntoChunk(b, i, CharAt(text, p) % 128))
         ELSE encodeLoop(text, i + 1, 0, b)

encode(text) == encodeLoop(text, 0, 0, EmptyChunks)

\* Name(const char*) and the default Name()
Name(text) == encode(text)
EmptyName == EmptyChunks

\* Name::isEmpty(): chunks_[0] == 0
isEmpty(chunks) == chunks[0] = EmptyChunks[0]

\* Mutant: the comparison from the last chunk down leaves out chunk 0
RECURSIVE areChunksEqual_SkipsFirstChunk(_, _, _)
areChunksEqual_SkipsFirstChunk(lhs, rhs, Index) ==
    IF Index = 0 THEN TRUE
    ELSE IF lhs[Index] = rhs[Index] THEN areChunksEqual_SkipsFirstChunk(lhs, rhs, Index - 1)
         ELSE FALSE

RECURSIVE areChunksEqual(_, _, _)
areChunksEqual(lhs, rhs, Index) ==
    IF Index = 0 THEN lhs[0] = rhs[0]
    ELSE IF lhs[Index] = rhs[Index] THEN areChunksEqual(lhs, rhs, Index - 1)
         ELSE FALSE

\* Name::operator== (Chunks::operator==): from the last chunk to the first
NameEquals(lhs, rhs) == areChunksEqual(lhs, rhs, NumberOfChunks - 1)

\* The character in slot i of the chunks:
\* (chunks_[i / CharactersPerChunk] >> (7 * (i % CharactersPerChunk))) & 0x7F
Slot(chunks, i) == chunks[i \div CharactersPerChunk][i % CharactersPerChunk] % 128

\* Mutant: the loop of toString() ends one slot early
RECURSIVE toStringLoop_StopsEarly(_, _, _)
toStringLoop_StopsEarly(chunks, i, ret) ==
    IF i >= MaxLength - 1 THEN ret
    ELSE IF Slot(chunks, i) = 0 THEN ret
    ELSE toStringLoop_StopsEarly(chunks, i + 1, Append(ret, Slot(chunks, i)))

\* Name::toString(), lines 245-253
RECURSIVE toStringLoop(_, _, _)
toStringLoop(chunks, i, ret) ==
    IF i >= MaxLength THEN ret
    ELSE IF Slot(chunks, i) = 0 THEN ret
    ELSE toStringLoop(chunks, i + 1, Append(ret, Slot(chunks, i)))

toString(chunks) == toStringLoop(chunks, 0, <<>>)

\* Mutant: a name of MaxLength + 1 characters passes
RECURSIVE isValidNameLoop_OneTooMany(_, _)
isValidNameLoop_OneTooMany(name, i) ==
    IF CharAt(name, i) = 0 THEN TRUE
    ELSE IF CharAt(name, i) >= 128 THEN FALSE
    ELSE IF i > MaxLength THEN FALSE
    ELSE isValidNameLoop_OneTooMany(name, i + 1)

\* Name::isValidName(), lines 268-279.  A character is its code 1..255; as
\* a `char` that is signed it converts to a std::uint32_t of at least
\* 2^32 - 128, as one that is unsigned to its code: x >= 128 is the same
RECURSIVE isValidNameLoop(_, _)
isValidNameLoop(name, i) ==
    IF CharAt(name, i) = 0 THEN TRUE
    ELSE IF CharAt(name, i) >= 128 THEN FALSE
    ELSE IF i >= MaxLength THEN FALSE
    ELSE isValidNameLoop(name, i + 1)

\* Name::isValidName(), lines 261-282
isValidName(name) ==
    IF CharAt(name, 0) = 0 THEN FALSE
    ELSE isValidNameLoop(name, 0)

-----------------------------------------------------------------------------
(* TypeDescriptor *)

TypeDescriptor(kind, element_size, number_of_elements) ==
    [kind |-> kind, element_size |-> element_size,
     number_of_elements |-> number_of_elements]

\* TypeDescriptor(): Kind{} is the first enumerator, the sizes are zero
DefaultTypeDescriptor == TypeDescriptor("Boolean", 0, 0)

-----------------------------------------------------------------------------
(* The registry: Category construction and destruction *)

\* Each Category object of the program is constructed with the name and the
\* type descriptor of its declaration.  Objects 1 and 2 are the categories
\* of the test's probes "a" (std::int32_t) and "b" (std::array<std::uint16_t,
\* 4>); the others are objects of a user's subclass, like the test's
\* PublicMorozov, with the default descriptor, all under the name "a".  So
\* objects 1 and 3 share a name with different types, objects 3 and 4 with
\* the same type.
ProbeCategories == {1, 2}

CategoryText(this) == IF this = 2 THEN <<98>> ELSE <<97>>

CategoryType(this) ==
    IF this = 1 THEN TypeDescriptor("Integer", 4, 1)
    ELSE IF this = 2 THEN TypeDescriptor("Unsigned", 2, 4)
    ELSE DefaultTypeDescriptor

CategoryTexts == { CategoryText(this) : this \in CategoryIds }

\* A text longer than MaxLength: "0123456789012..." as in the test
LongText == [i \in 1..(MaxLength + 4) |-> 48 + ((i - 1) % 10)]

\* Texts passed to findCategoryByName: registered names, "z", the empty
\* name, "\xFF\xA5" and a text longer than MaxLength
QueryTexts == CategoryTexts \cup { <<122>>, <<>>, <<255, 165>>, LongText }

\* The Name of every text the program uses, converted once
NameOf == [text \in QueryTexts |-> Name(text)]

\* The registry is used from one thread: nothing else runs inside ~Category()
RegistryIdle == dtor_this = NULL

\* The list from `item` on, following at most `fuel` links
RECURSIVE ListFrom(_, _)
ListFrom(item, fuel) ==
    IF item = NULL \/ fuel = 0 THEN <<>>
    ELSE <<item>> \o ListFrom(next_instance_in_list_[item], fuel - 1)

\* The registry in traversal order (cut after MaxCategories + 1 links, which
\* only a cyclic list reaches)
Traversal == ListFrom(root, MaxCategories + 1)

\* Mutant: the constructor links the object behind the last one
CategoryConstructor_AtTail(this, arg_type_descriptor, arg_name) ==
    /\ next_instance_in_list_' =
           IF root = NULL
           THEN [next_instance_in_list_ EXCEPT ![this] = NULL]
           ELSE [next_instance_in_list_ EXCEPT ![this] = NULL,
                                               ![Traversal[Len(Traversal)]] = this]
    /\ type_descriptor_' = [type_descriptor_ EXCEPT ![this] = arg_type_descriptor]
    /\ name_' = [name_ EXCEPT ![this] = arg_name]
    /\ live_variable_stack_' = [live_variable_stack_ EXCEPT ![this] = <<>>]
    /\ live_variable_stack_top_' = [live_variable_stack_top_ EXCEPT ![this] = NULL]
    /\ root' = IF root = NULL THEN this ELSE root

\* Category::Category(arg_type_descriptor, arg_name) for the object `this`
CategoryConstructor(this, arg_type_descriptor, arg_name) ==
    /\ next_instance_in_list_' = [next_instance_in_list_ EXCEPT ![this] = root]
    /\ type_descriptor_' = [type_descriptor_ EXCEPT ![this] = arg_type_descriptor]
    /\ name_' = [name_ EXCEPT ![this] = arg_name]
    /\ live_variable_stack_' = [live_variable_stack_ EXCEPT ![this] = <<>>]
    /\ live_variable_stack_top_' = [live_variable_stack_top_ EXCEPT ![this] = NULL]
    /\ root' = this

\* A Category object is constructed (a function-local static of a Probe, or
\* an object of a user's subclass)
Construct(this) ==
    /\ RegistryIdle
    /\ life[this] = "unborn"
    /\ CategoryConstructor(this, CategoryType(this), NameOf[CategoryText(this)])
    /\ life' = [life EXCEPT ![this] = "alive"]
    /\ created' = Append(created, this)
    /\ q_op' = "none" /\ q_index' = 0 /\ q_text' = <<>> /\ q_ret' = 0
    /\ UNCHANGED <<dtor_this, dtor_item, dtor_pc, dtor_iterations, dtor_before>>
    /\ UNCHANGED <<threadVars, historyVars>>
    /\ UNCHANGED <<callVars, startupVars>>

\* Mutant: the destructor of the head leaves the root pointing at it
DtorEnter_KeepsRoot(this) ==
    /\ RegistryIdle
    /\ life[this] = "alive"
    /\ life' = [life EXCEPT ![this] = "destroying"]
    /\ dtor_this' = this
    /\ dtor_before' = Traversal
    /\ dtor_iterations' = 0
    /\ root' = root
    /\ IF root = this
       THEN dtor_item' = NULL /\ dtor_pc' = "return"
       ELSE dtor_item' = root /\ dtor_pc' = "loop"
    /\ q_op' = "none" /\ q_index' = 0 /\ q_text' = <<>> /\ q_ret' = 0
    /\ UNCHANGED <<next_instance_in_list_, name_, type_descriptor_,
                   live_variable_stack_, live_variable_stack_top_, created>>
    /\ UNCHANGED <<threadVars, historyVars>>
    /\ UNCHANGED <<callVars, startupVars>>

\* ~Category(), lines 599-605: the head is unlinked at once, otherwise the
\* search starts at the root
DtorEnter(this) ==
    /\ RegistryIdle
    /\ life[this] = "alive"
    /\ life' = [life EXCEPT ![this] = "destroying"]
    /\ dtor_this' = this
    /\ dtor_before' = Traversal
    /\ dtor_iterations' = 0
    /\ IF root = this
       THEN /\ root' = next_instance_in_list_[this]
            /\ dtor_item' = NULL
            /\ dtor_pc' = "return"
       ELSE /\ root' = root
            /\ dtor_item' = root
            /\ dtor_pc' = "loop"
    /\ q_op' = "none" /\ q_index' = 0 /\ q_text' = <<>> /\ q_ret' = 0
    /\ UNCHANGED <<next_instance_in_list_, name_, type_descriptor_,
                   live_variable_stack_, live_variable_stack_top_, created>>
    /\ UNCHANGED <<threadVars, historyVars>>
    /\ UNCHANGED <<callVars, startupVars>>

\* ~Category(), lines 606-613: one evaluation of the loop condition and body.
\* The body never assigns `item`: when item's successor is not `this`, the
\* iteration ends with every variable of the program as it was.
DtorLoop ==
    /\ dtor_pc = "loop"
    /\ IF dtor_item = NULL
       THEN \* the loop ends; assert(item != nullptr) fails
            /\ dtor_pc' = "assert"
            /\ UNCHANGED <<next_instance_in_list_, dtor_iterations>>
       ELSE IF next_instance_in_list_[dtor_item] = dtor_this
       THEN /\ next_instance_in_list_' =
                  [next_instance_in_list_ EXCEPT ![dtor_item] =
                       next_instance_in_list_[next_instance_in_list_[dtor_item]]]
            /\ dtor_pc' = "return"
            /\ UNCHANGED dtor_iterations
       ELSE /\ dtor_iterations < MaxSpin
            /\ dtor_iterations' = dtor_iterations + 1
            /\ UNCHANGED <<next_instance_in_list_, dtor_pc>>
    /\ UNCHANGED <<root, name_, type_descriptor_, live_variable_stack_,
                   live_variable_stack_top_, life, created, dtor_this, dtor_item,
                   dtor_before, queryVars, threadVars, historyVars>>
    /\ UNCHANGED <<callVars, startupVars>>

\* ~Category() returns: the object is gone
DtorReturn ==
    /\ dtor_pc = "return"
    /\ life' = [life EXCEPT ![dtor_this] = "dead"]
    /\ dtor_this' = NULL
    /\ dtor_item' = NULL
    /\ dtor_pc' = "none"
    /\ dtor_iterations' = 0
    /\ dtor_before' = <<>>
    /\ UNCHANGED <<root, next_instance_in_list_, name_, type_descriptor_,
                   live_variable_stack_, live_variable_stack_top_, created,
                   queryVars, threadVars, historyVars>>
    /\ UNCHANGED <<callVars, startupVars>>

-----------------------------------------------------------------------------
(* The registry queries *)

\* Mutant: the index is decremented before it is tested (--index > 0)
RECURSIVE findCategoryByIndexLoop_PreDecrement(_, _)
findCategoryByIndexLoop_PreDecrement(item, index) ==
    IF (item # NULL) /\ (index - 1 > 0)
    THEN findCategoryByIndexLoop_PreDecrement(next_instance_in_list_[item], index - 1)
    ELSE item

\* findCategoryByIndex(), lines 808-813
RECURSIVE findCategoryByIndexLoop(_, _)
findCategoryByIndexLoop(item, index) ==
    IF (item # NULL) /\ (index > 0)
    THEN findCategoryByIndexLoop(next_instance_in_list_[item], index - 1)
    ELSE item

findCategoryByIndex(index) == findCategoryByIndexLoop(root, index)

\* Mutant: the search advances before it compares, so the root is skipped
RECURSIVE findCategoryByNameLoop_SkipsRoot(_, _)
findCategoryByNameLoop_SkipsRoot(item, name) ==
    IF item = NULL \/ next_instance_in_list_[item] = NULL THEN NULL
    ELSE IF NameEquals(name_[next_instance_in_list_[item]], name)
         THEN next_instance_in_list_[item]
    ELSE findCategoryByNameLoop_SkipsRoot(next_instance_in_list_[item], name)

\* findCategoryByName(), lines 825-835
RECURSIVE findCategoryByNameLoop(_, _)
findCategoryByNameLoop(item, name) ==
    IF item = NULL THEN NULL
    ELSE IF NameEquals(name_[item], name) THEN item
    ELSE findCategoryByNameLoop(next_instance_in_list_[item], name)

findCategoryByName(name) == findCategoryByNameLoop(root, name)

\* Mutant: the loop ends at the last item without counting it
RECURSIVE countCategoriesLoop_StopsAtLast(_, _)
countCategoriesLoop_StopsAtLast(item, out) ==
    IF item = NULL \/ next_instance_in_list_[item] = NULL THEN out
    ELSE countCategoriesLoop_StopsAtLast(next_instance_in_list_[item], out + 1)

\* countCategories(), lines 845-852
RECURSIVE countCategoriesLoop(_, _)
countCategoriesLoop(item, out) ==
    IF item = NULL THEN out
    ELSE countCategoriesLoop(next_instance_in_list_[item], out + 1)

countCategories == countCategoriesLoop(root, 0)

\* Mutant: the inner loop compares `outer` with itself as well
RECURSIVE findFirstNonUniqueCategoryNameInnerLoop_ComparesWithItself(_, _)
findFirstNonUniqueCategoryNameInnerLoop_ComparesWithItself(inner, outer) ==
    IF inner = NULL THEN NULL
    ELSE IF NameEquals(name_[inner], name_[outer]) THEN inner
    ELSE findFirstNonUniqueCategoryNameInnerLoop_ComparesWithItself(
             next_instance_in_list_[inner], outer)

\* findFirstNonUniqueCategoryName(), lines 871-880: the first item of the
\* list other than `outer` that has the name of `outer`
RECURSIVE findFirstNonUniqueCategoryNameInnerLoop(_, _)
findFirstNonUniqueCategoryNameInnerLoop(inner, outer) ==
    IF inner = NULL THEN NULL
    ELSE IF (inner # outer) /\ NameEquals(name_[inner], name_[outer]) THEN inner
    ELSE findFirstNonUniqueCategoryNameInnerLoop(next_instance_in_list_[inner], outer)

\* findFirstNonUniqueCategoryName(), lines 868-885
RECURSIVE findFirstNonUniqueCategoryNameOuterLoop(_)
findFirstNonUniqueCategoryNameOuterLoop(outer) ==
    IF outer = NULL THEN EmptyName
    ELSE LET inner == findFirstNonUniqueCategoryNameInnerLoop(root, outer)
         IN  IF inner # NULL THEN name_[inner]
             ELSE findFirstNonUniqueCategoryNameOuterLoop(next_instance_in_list_[outer])

findFirstNonUniqueCategoryName == findFirstNonUniqueCategoryNameOuterLoop(root)

\* The program calls findCategoryByIndex(index)
QueryByIndex(index) ==
    /\ RegistryIdle
    /\ q_op' = "byIndex"
    /\ q_index' = index
    /\ q_text' = <<>>
    /\ q_ret' = findCategoryByIndex(index)
    /\ UNCHANGED <<registryVars, threadVars, historyVars>>
    /\ UNCHANGED <<callVars, startupVars>>

\* The program calls findCategoryByName(text): the text is converted to a
\* Name by the implicit constructor
QueryByName(text) ==
    /\ RegistryIdle
    /\ q_op' = "byName"
    /\ q_index' = 0
    /\ q_text' = text
    /\ q_ret' = findCategoryByName(NameOf[text])
    /\ UNCHANGED <<registryVars, threadVars, historyVars>>
    /\ UNCHANGED <<callVars, startupVars>>

\* The program calls countCategories()
QueryCount ==
    /\ RegistryIdle
    /\ q_op' = "count"
    /\ q_index' = 0
    /\ q_text' = <<>>
    /\ q_ret' = countCategories
    /\ UNCHANGED <<registryVars, threadVars, historyVars>>
    /\ UNCHANGED <<callVars, startupVars>>

\* The program calls findFirstNonUniqueCategoryName()
QueryFirstNonUnique ==
    /\ RegistryIdle
    /\ q_op' = "firstNonUnique"
    /\ q_index' = 0
    /\ q_text' = <<>>
    /\ q_ret' = findFirstNonUniqueCategoryName
    /\ UNCHANGED <<registryVars, threadVars, historyVars>>
    /\ UNCHANGED <<callVars, startupVars>>

-----------------------------------------------------------------------------
(* The registry as a program: objects are constructed and destroyed in any *)
(* order, and queried in between                                           *)

NoThread == 0

Threads == {1, 2}

\* No thread is inside the library, no Probe exists
InitThreads ==
    /\ cs_owner = NoThread
    /\ now = 0
    /\ trapped = FALSE
    /\ pc = [t \in Threads |-> "idle"]
    /\ t_this = [t \in Threads |-> NULL]
    /\ t_location = [t \in Threads |-> NULL]
    /\ s_data_size = [t \in Threads |-> 0]
    /\ s_ts = [t \in Threads |-> 0]
    /\ s_out = [t \in Threads |-> <<>>]
    /\ s_success = [t \in Threads |-> FALSE]
    /\ handles = [t \in Threads |-> <<>>]
    /\ pushed = [c \in CategoryIds |-> <<>>]
    /\ s_called_at = [t \in Threads |-> 0]
    /\ s_top_at_cs = [t \in Threads |-> NULL]
    /\ s_depth_at_cs = [t \in Threads |-> 0]
    /\ s_expect = [t \in Threads |-> NULL]
    /\ s_clock_reads = [t \in Threads |-> 0]

\* None of the free functions of the Name and copy sections has been called
NoCall ==
    /\ f_op = "none"
    /\ f_in = <<>>
    /\ f_out = <<>>

\* The registry is empty; the program has no probes, it is in main()
EmptyRegistry ==
    /\ InitThreads
    /\ this_category_ = [c \in ProbeCategories |-> NULL]
    /\ initialized = [c \in ProbeCategories |-> FALSE]
    /\ phase = "main"
    /\ static_order = <<>>
    /\ root = NULL
    /\ next_instance_in_list_ = [c \in CategoryIds |-> Uninitialized]
    /\ name_ = [c \in CategoryIds |-> EmptyName]
    /\ type_descriptor_ = [c \in CategoryIds |-> DefaultTypeDescriptor]
    /\ live_variable_stack_ = [c \in CategoryIds |-> <<Uninitialized>>]
    /\ live_variable_stack_top_ = [c \in CategoryIds |-> Uninitialized]
    /\ life = [c \in CategoryIds |-> "unborn"]
    /\ created = <<>>
    /\ dtor_this = NULL
    /\ dtor_item = NULL
    /\ dtor_pc = "none"
    /\ dtor_iterations = 0
    /\ dtor_before = <<>>
    /\ q_op = "none"
    /\ q_index = 0
    /\ q_text = <<>>
    /\ q_ret = 0

InitRegistry == EmptyRegistry /\ NoCall

NextRegistry ==
    \/ \E this \in CategoryIds : Construct(this)
    \/ \E this \in CategoryIds : DtorEnter(this)
    \/ DtorLoop
    \/ DtorReturn
    \/ \E index \in 0..(MaxCategories + 1) : QueryByIndex(index)
    \/ \E text \in QueryTexts : QueryByName(text)
    \/ QueryCount
    \/ QueryFirstNonUnique

SpecRegistry == InitRegistry /\ [][NextRegistry]_vars

-----------------------------------------------------------------------------
(* Properties of the registry (checked under SpecRegistry) *)

Reverse(seq) == [i \in 1..Len(seq) |-> seq[Len(seq) + 1 - i]]

\* seq without its entries equal to x
Without(seq, x) == SelectSeq(seq, LAMBDA y : y # x)

\* The objects linked in the registry
Linked == { Traversal[i] : i \in 1..Len(Traversal) }

\* The position of object c in the order of construction
CreatedAt(c) == CHOOSE i \in 1..Len(created) : created[i] = c

\* C5: destroying a registered Category at any position of the list (head,
\* second, or deeper) unlinks exactly that Category: once its destructor has
\* returned, or has searched for as many iterations as the list had entries,
\* the list is the list from before without that Category (so it is not
\* reachable, the count is one less and the others keep their order).
C5_DestructorUnlinksAtAnyPosition ==
    (dtor_this # NULL
        /\ (dtor_pc = "return" \/ dtor_iterations >= Len(dtor_before)))
    => Traversal = Without(dtor_before, dtor_this)

\* C6: the destructor of a registered Category terminates: its search loop
\* reaches the predecessor of the destroyed Category within as many
\* iterations as the list has entries, so it is never still searching after
\* that many.
C6_DestructorSearchTerminates ==
    dtor_pc = "loop" => dtor_iterations < Len(dtor_before)

\* C7: a constructed Category is linked at the head with an empty stack of
\* live variables (no variable is pushed in this specification, so the stack
\* stays as the constructor left it), and the traversal order is most
\* recently constructed first: the list is the order of construction reversed, restricted to the
\* linked objects (the order of construction never changes, so neither does
\* the relative order of two linked objects), and findCategoryByIndex(0) is
\* the most recently constructed object that is still linked.
C7_TraversalIsNewestFirst ==
    /\ Traversal = Reverse(SelectSeq(created, LAMBDA c : c \in Linked))
    /\ Linked # {} =>
         /\ findCategoryByIndex(0) \in Linked
         /\ \A c \in Linked : CreatedAt(c) <= CreatedAt(findCategoryByIndex(0))
    /\ \A c \in CategoryIds :
         life[c] = "alive" =>
             live_variable_stack_[c] = <<>> /\ live_variable_stack_top_[c] = NULL

\* C7 witness: three objects were constructed, the second of them has been
\* destroyed, and the other two are still linked
C7_Witness ==
    /\ Len(created) = 3
    /\ life[created[2]] = "dead"
    /\ Len(Traversal) = 2
    /\ Traversal[1] = created[3]

\* C8: the list from the root is finite and acyclic, holds every Category
\* that is constructed and whose destruction has not begun exactly once, and
\* holds no Category that is destroyed or was never constructed.
C8_RegistryHoldsExactlyTheLiving ==
    /\ Len(Traversal) <= MaxCategories
    /\ \A c \in CategoryIds :
         /\ life[c] = "alive" =>
              Cardinality({ i \in 1..Len(Traversal) : Traversal[i] = c }) = 1
         /\ life[c] \in {"dead", "unborn"} => c \notin Linked

\* C8 witness: a destroyed object, an object never constructed and two
\* linked ones
C8_Witness ==
    /\ \E c \in CategoryIds : life[c] = "dead"
    /\ \E c \in CategoryIds : life[c] = "unborn"
    /\ Len(Traversal) = 2
    /\ RegistryIdle

\* C9: findCategoryByIndex(i) returns the i-th Category of the list when
\* i is less than the number of linked categories and NULL otherwise, and
\* countCategories() returns the number of linked categories.
C9_IndexAndCount ==
    /\ q_op = "byIndex" =>
         q_ret = IF q_index < Cardinality(Linked)
                 THEN Traversal[q_index + 1] ELSE NULL
    /\ q_op = "count" => q_ret = Cardinality(Linked)

\* C9 witness: after a destruction, the last of at least two linked
\* categories is found by its index
C9_Witness ==
    /\ q_op = "byIndex"
    /\ \E c \in CategoryIds : life[c] = "dead"
    /\ q_index >= 1
    /\ q_index = Len(Traversal) - 1
    /\ q_ret # NULL

\* C10: findCategoryByName(name) returns the first Category in list order
\* whose Name equals the argument (the most recently constructed one with
\* that Name) and NULL when no linked Category has that Name; this holds
\* for the empty name, for names with non-ASCII bytes and for names longer
\* than MaxLength as for any other.
C10_FirstByName ==
    q_op = "byName" =>
        LET matches == { i \in 1..Len(Traversal) :
                            name_[Traversal[i]] = Name(q_text) }
        IN  IF matches = {}
            THEN q_ret = NULL
            ELSE /\ q_ret = Traversal[CHOOSE i \in matches : \A j \in matches : i <= j]
                 /\ \A j \in matches : CreatedAt(Traversal[j]) <= CreatedAt(q_ret)

\* C10 witness: two linked categories share the name that was looked up and
\* the one constructed later is returned, not being the head of the list
C10_Witness ==
    /\ q_op = "byName"
    /\ q_ret # NULL
    /\ q_ret # root
    /\ \E c \in Linked : c # q_ret /\ name_[c] = name_[q_ret]

\* The linked categories have pairwise distinct (name, type) pairs
DistinctNameTypePairs ==
    \A c, d \in Linked :
        c # d => (name_[c] # name_[d] \/ type_descriptor_[c] # type_descriptor_[d])

\* C11 as stated: after the construction of categories under distinct
\* (name, type) pairs, findCategoryByName of the name of each of them returns
\* that category (and each is returned by findCategoryByIndex for some index
\* below countCategories()).
C11_EachFoundByItsOwnName ==
    (RegistryIdle /\ DistinctNameTypePairs) =>
        \A c \in Linked :
            /\ \E index \in 0..(countCategories - 1) : findCategoryByIndex(index) = c
            /\ findCategoryByName(name_[c]) = c

\* C11 as amended: each construction of a Category adds one to
\* countCategories(); afterwards the new Category is returned by
\* findCategoryByIndex(0) and by findCategoryByName of its name, and every
\* Category registered before is still returned by findCategoryByIndex (one
\* index higher), while findCategoryByName of its name returns what it
\* returned before unless the new Category has the same name, which then
\* hides it.
C11_ConstructionRegisters ==
    [][\A this \in CategoryIds :
          (life[this] = "unborn" /\ life'[this] = "alive") =>
              /\ countCategories' = countCategories + 1
              /\ findCategoryByIndex(0)' = this
              /\ findCategoryByName(name_[this])' = this
              /\ \A index \in 0..MaxCategories :
                    findCategoryByIndex(index) # NULL =>
                        findCategoryByIndex(index + 1)' = findCategoryByIndex(index)
              /\ \A c \in Linked :
                    findCategoryByName(name_[c])' =
                        IF name_[c] = name_'[this] THEN this
                        ELSE findCategoryByName(name_[c])
      ]_vars

\* C11 witness: three categories are registered, two of them under one name
\* with different types, and the older of the two is hidden from
\* findCategoryByName
C11_Witness ==
    /\ RegistryIdle
    /\ countCategories = 3
    /\ DistinctNameTypePairs
    /\ \E c \in Linked : findCategoryByName(name_[c]) # c

\* Two different entries of a list of categories have the same name
SharesName(list) ==
    \E i, j \in 1..Len(list) : i # j /\ name_[list[i]] = name_[list[j]]

\* C12: two categories may be registered under one name, and
\* findFirstNonUniqueCategoryName() then returns that name; when one of the
\* two is destroyed and no other name is shared, it returns the empty name
\* again and countCategories() is back at its earlier value.  The
\* destruction counts as done when the destructor has returned, or has
\* searched for as many iterations as the list had entries.
C12_DuplicateNameAppearsAndGoes ==
    /\ RegistryIdle =>
          /\ SharesName(Traversal) =>
                \E c, d \in Linked :
                    /\ c # d
                    /\ name_[c] = name_[d]
                    /\ findFirstNonUniqueCategoryName = name_[c]
          /\ q_op = "firstNonUnique" =>
                q_ret = IF SharesName(Traversal) THEN NameOf[<<97>>] ELSE EmptyName
    /\ (/\ dtor_this # NULL
        /\ dtor_pc = "return" \/ dtor_iterations >= Len(dtor_before)
        /\ SharesName(dtor_before)
        /\ ~SharesName(Without(dtor_before, dtor_this)))
       => /\ findFirstNonUniqueCategoryName = EmptyName
          /\ countCategories = Len(dtor_before) - 1

-----------------------------------------------------------------------------
(* Memory and the copy routine *)

\* sizeof(std::size_t) on a 64-bit target
WordSize == 8

\* The byte stored at address a.  Neighbouring addresses hold different
\* bytes, so a copy shows where it was taken from.
Mem(a) == (a * 37 + 11) % 256

\* The address of the variable that thread t traces with its Probe number
\* `depth` (0 is its oldest) of Category c.  Thread 1 keeps its variables at
\* word-aligned addresses; those of thread 2 are aligned to 4 bytes only, so
\* that sample() takes the word copy for some variables and the byte copy
\* for the others.
VariableAddress(t, c, depth) ==
    (IF t = 1 THEN 1024 ELSE 2052) + (128 * (c - 1)) + (16 * depth)

\* out.data() in sample() called by thread t: word-aligned for thread 2 only
OutAddress(t) == IF t = 2 THEN 4096 ELSE 5001

\* *dst = value, for a destination buffer `buf` that starts at address `base`
StoreByte(buf, base, dst, value) == [buf EXCEPT ![dst - base + 1] = value]

\* *reinterpret_cast<size_t*>(dst) = *reinterpret_cast<const volatile size_t*>(src)
RECURSIVE StoreWord(_, _, _, _, _)
StoreWord(buf, base, dst, src, k) ==
    IF k = WordSize THEN buf
    ELSE StoreWord(StoreByte(buf, base, dst + k, Mem(src + k)), base, dst, src, k + 1)

\* lines 520-527: the do-while loop of the word copy
RECURSIVE copyWords(_, _, _, _, _)
copyWords(size, src, dst, base, buf) ==
    LET stored == StoreWord(buf, base, dst, src, 0)
    IN  IF size - WordSize > 0
        THEN copyWords(size - WordSize, src + WordSize, dst + WordSize, base, stored)
        ELSE stored

\* lines 532-538: the do-while loop of the byte copy
RECURSIVE copyBytes(_, _, _, _, _)
copyBytes(size, src, dst, base, buf) ==
    LET stored == StoreByte(buf, base, dst, Mem(src))
    IN  IF size - 1 # 0
        THEN copyBytes(size - 1, src + 1, dst + 1, base, stored)
        ELSE stored

\* impl_::copyBytesQuicklyAndUnsafely(size, src, dst), with size > 0 as its
\* documentation requires: the destination buffer after the copy
copyBytesQuicklyAndUnsafely(size, src, dst, base, buf) ==
    IF (size % WordSize = 0) /\ (dst % WordSize = 0) /\ (src % WordSize = 0)
    THEN copyWords(size, src, dst, base, buf)
    ELSE copyBytes(size, src, dst, base, buf)

-----------------------------------------------------------------------------
(* pushVariable(), popVariable() and sample(), called by concurrent threads *)

\* How many probes of one category may exist at the same time
MaxNumberOfCoexistentProbesOfSameCategory == 2

\* Maximum size of a traced variable
MaxVariableSize == 256

\* Bounds of the model: Probe objects that exist at the same time in the
\* whole program, and ticks of the clock
MaxProbes == 2
MaxTime == 1

\* The threads that call sample(): the application samples from one context
Samplers == {2}

sampleLocals == <<s_data_size, s_ts, s_out, s_success>>
sampleHistory == <<s_called_at, s_top_at_cs, s_depth_at_cs, s_expect, s_clock_reads>>

\* CriticalSectionLocker locker: a mutual-exclusion lock taken by the
\* constructor and released by the destructor at the end of the scope
Lock(t) == cs_owner = NoThread /\ cs_owner' = t
Unlock(t) == cs_owner' = IF cs_owner = t THEN NoThread ELSE cs_owner

\* The youngest location of a sequence of locations, if there is one
Youngest(locations) ==
    IF locations # <<>> THEN locations[Len(locations)] ELSE NULL

\* Probe::Probe(value): the Probe of thread t for Category c is constructed
\* and calls this_category_->pushVariable(value); the program has fewer than
\* `limit` Probe objects before
PushCallWithin(t, c, limit) ==
    /\ ~trapped
    /\ pc[t] = "idle"
    /\ life[c] = "alive"
    /\ Len(handles[1]) + Len(handles[2]) < limit
    /\ pc' = [pc EXCEPT ![t] = "p_lock"]
    /\ t_this' = [t_this EXCEPT ![t] = c]
    /\ t_location' = [t_location EXCEPT ![t] = VariableAddress(t, c, Len(handles[t]))]
    /\ handles' = [handles EXCEPT ![t] =
                      Append(@, [category |-> c,
                                 location |-> VariableAddress(t, c, Len(handles[t]))])]
    /\ UNCHANGED <<cs_owner, now, trapped, sampleLocals, historyVars, registryVars,
                   queryVars>>
    /\ UNCHANGED <<callVars, startupVars>>

PushCall(t, c) == PushCallWithin(t, c, MaxProbes)

\* A pushVariable() that updates the stack without a locker
PushAcquire_WithoutLocker(t) ==
    /\ ~trapped
    /\ pc[t] = "p_lock"
    /\ pc' = [pc EXCEPT ![t] = "p_push"]
    /\ pushed' = [pushed EXCEPT ![t_this[t]] = Append(@, t_location[t])]
    /\ UNCHANGED <<cs_owner, now, trapped, t_this, t_location, sampleLocals, handles,
                   sampleHistory, registryVars, queryVars>>
    /\ UNCHANGED <<callVars, startupVars>>

\* pushVariable(), line 622: CriticalSectionLocker locker
PushAcquire(t) ==
    /\ ~trapped
    /\ pc[t] = "p_lock"
    /\ Lock(t)
    /\ pc' = [pc EXCEPT ![t] = "p_push"]
    /\ pushed' = [pushed EXCEPT ![t_this[t]] = Append(@, t_location[t])]
    /\ UNCHANGED <<now, trapped, t_this, t_location, sampleLocals, handles,
                   sampleHistory, registryVars, queryVars>>
    /\ UNCHANGED <<callVars, startupVars>>

\* Mutant: push_back() without the check of the capacity
PushBack_Unchecked(t) ==
    /\ ~trapped
    /\ pc[t] = "p_push"
    /\ live_variable_stack_' =
           [live_variable_stack_ EXCEPT ![t_this[t]] = Append(@, t_location[t])]
    /\ pc' = [pc EXCEPT ![t] = "p_top"]
    /\ UNCHANGED <<cs_owner, now, trapped, t_this, t_location, sampleLocals, handles,
                   historyVars, listVars, live_variable_stack_top_, queryVars>>
    /\ UNCHANGED <<callVars, startupVars>>

\* pushVariable(), line 625: live_variable_stack_.push_back(location); with
\* assertions enabled a push beyond the capacity is an assertion failure
PushBack(t) ==
    /\ ~trapped
    /\ pc[t] = "p_push"
    /\ IF Len(live_variable_stack_[t_this[t]]) < MaxNumberOfCoexistentProbesOfSameCategory
       THEN /\ live_variable_stack_' =
                  [live_variable_stack_ EXCEPT ![t_this[t]] = Append(@, t_location[t])]
            /\ pc' = [pc EXCEPT ![t] = "p_top"]
            /\ UNCHANGED trapped
       ELSE /\ trapped' = TRUE
            /\ UNCHANGED <<live_variable_stack_, pc>>
    /\ UNCHANGED <<cs_owner, now, t_this, t_location, sampleLocals, handles,
                   historyVars, listVars, live_variable_stack_top_, queryVars>>
    /\ UNCHANGED <<callVars, startupVars>>

\* Mutant: pushVariable() leaves the cached top as it was
PushTop_KeepsTop(t) ==
    /\ ~trapped
    /\ pc[t] = "p_top"
    /\ pc' = [pc EXCEPT ![t] = "p_unlock"]
    /\ UNCHANGED <<cs_owner, now, trapped, t_this, t_location, sampleLocals, handles,
                   historyVars, registryVars, queryVars>>
    /\ UNCHANGED <<callVars, startupVars>>

\* pushVariable(), line 626: live_variable_stack_top_ = location
PushTop(t) ==
    /\ ~trapped
    /\ pc[t] = "p_top"
    /\ live_variable_stack_top_' =
           [live_variable_stack_top_ EXCEPT ![t_this[t]] = t_location[t]]
    /\ pc' = [pc EXCEPT ![t] = "p_unlock"]
    /\ UNCHANGED <<cs_owner, now, trapped, t_this, t_location, sampleLocals, handles,
                   historyVars, listVars, live_variable_stack_, queryVars>>
    /\ UNCHANGED <<callVars, startupVars>>

\* pushVariable(), line 627: the locker is destroyed, the call returns
PushRelease(t) ==
    /\ ~trapped
    /\ pc[t] = "p_unlock"
    /\ Unlock(t)
    /\ pc' = [pc EXCEPT ![t] = "idle"]
    /\ t_this' = [t_this EXCEPT ![t] = NULL]
    /\ t_location' = [t_location EXCEPT ![t] = NULL]
    /\ UNCHANGED <<now, trapped, sampleLocals, handles, historyVars, registryVars,
                   queryVars>>
    /\ UNCHANGED <<callVars, startupVars>>

\* Probe::~Probe(): the youngest Probe of thread t goes out of scope and
\* calls this_category_->popVariable()
PopCall(t) ==
    /\ ~trapped
    /\ pc[t] = "idle"
    /\ handles[t] # <<>>
    /\ pc' = [pc EXCEPT ![t] = "q_lock"]
    /\ t_this' = [t_this EXCEPT ![t] = handles[t][Len(handles[t])].category]
    /\ UNCHANGED <<cs_owner, now, trapped, t_location, sampleLocals, handles,
                   historyVars, registryVars, queryVars>>
    /\ UNCHANGED <<callVars, startupVars>>

\* popVariable(), line 631: CriticalSectionLocker locker
PopAcquire(t) ==
    /\ ~trapped
    /\ pc[t] = "q_lock"
    /\ Lock(t)
    /\ pc' = [pc EXCEPT ![t] = "q_pop"]
    /\ pushed' = [pushed EXCEPT ![t_this[t]] = SubSeq(@, 1, Len(@) - 1)]
    /\ UNCHANGED <<now, trapped, t_this, t_location, sampleLocals, handles,
                   sampleHistory, registryVars, queryVars>>
    /\ UNCHANGED <<callVars, startupVars>>

\* Mutant: the pop removes the last element of every stack
PopBack_PopsEveryStack(t) ==
    /\ ~trapped
    /\ pc[t] = "q_pop"
    /\ live_variable_stack_' =
           [c \in CategoryIds |->
               IF c \in ProbeCategories /\ live_variable_stack_[c] # <<>>
               THEN SubSeq(live_variable_stack_[c], 1, Len(live_variable_stack_[c]) - 1)
               ELSE live_variable_stack_[c]]
    /\ pc' = [pc EXCEPT ![t] = "q_top"]
    /\ UNCHANGED <<cs_owner, now, trapped, t_this, t_location, sampleLocals, handles,
                   historyVars, listVars, live_variable_stack_top_, queryVars>>
    /\ UNCHANGED <<callVars, startupVars>>

\* popVariable(), line 640: live_variable_stack_.pop_back(); with assertions
\* enabled a pop of an empty stack is an assertion failure
PopBack(t) ==
    /\ ~trapped
    /\ pc[t] = "q_pop"
    /\ IF live_variable_stack_[t_this[t]] # <<>>
       THEN /\ live_variable_stack_' =
                  [live_variable_stack_ EXCEPT ![t_this[t]] = SubSeq(@, 1, Len(@) - 1)]
            /\ pc' = [pc EXCEPT ![t] = "q_top"]
            /\ UNCHANGED trapped
       ELSE /\ trapped' = TRUE
            /\ UNCHANGED <<live_variable_stack_, pc>>
    /\ UNCHANGED <<cs_owner, now, t_this, t_location, sampleLocals, handles,
                   historyVars, listVars, live_variable_stack_top_, queryVars>>
    /\ UNCHANGED <<callVars, startupVars>>

\* A popVariable() that leaves the cached top as it was
PopTop_KeepsTop(t) ==
    /\ ~trapped
    /\ pc[t] = "q_top"
    /\ pc' = [pc EXCEPT ![t] = "q_unlock"]
    /\ UNCHANGED <<cs_owner, now, trapped, t_this, t_location, sampleLocals, handles,
                   historyVars, registryVars, queryVars>>
    /\ UNCHANGED <<callVars, startupVars>>

\* popVariable(), lines 641-648: the cached top follows the stack
PopTop(t) ==
    /\ ~trapped
    /\ pc[t] = "q_top"
    /\ live_variable_stack_top_' =
           [live_variable_stack_top_ EXCEPT ![t_this[t]] =
                IF live_variable_stack_[t_this[t]] # <<>>
                THEN live_variable_stack_[t_this[t]][Len(live_variable_stack_[t_this[t]])]
                ELSE NULL]
    /\ pc' = [pc EXCEPT ![t] = "q_unlock"]
    /\ UNCHANGED <<cs_owner, now, trapped, t_this, t_location, sampleLocals, handles,
                   historyVars, listVars, live_variable_stack_, queryVars>>
    /\ UNCHANGED <<callVars, startupVars>>

\* Mutant: popVariable() returns without destroying its locker
PopRelease_KeepsLocker(t) ==
    /\ ~trapped
    /\ pc[t] = "q_unlock"
    /\ pc' = [pc EXCEPT ![t] = "idle"]
    /\ t_this' = [t_this EXCEPT ![t] = NULL]
    /\ handles' = [handles EXCEPT ![t] = SubSeq(@, 1, Len(@) - 1)]
    /\ UNCHANGED <<cs_owner, now, trapped, t_location, sampleLocals, historyVars,
                   registryVars, queryVars>>
    /\ UNCHANGED <<callVars, startupVars>>

\* popVariable(), line 649: the locker is destroyed, the call returns and
\* the Probe is gone
PopRelease(t) ==
    /\ ~trapped
    /\ pc[t] = "q_unlock"
    /\ Unlock(t)
    /\ pc' = [pc EXCEPT ![t] = "idle"]
    /\ t_this' = [t_this EXCEPT ![t] = NULL]
    /\ handles' = [handles EXCEPT ![t] = SubSeq(@, 1, Len(@) - 1)]
    /\ UNCHANGED <<now, trapped, t_location, sampleLocals, historyVars, registryVars,
                   queryVars>>
    /\ UNCHANGED <<callVars, startupVars>>

\* Mutant: sample() takes the time once more, before its critical section
SampleCall_ReadsClockFirst(t, c) ==
    /\ ~trapped
    /\ pc[t] = "idle"
    /\ life[c] = "alive"
    /\ LET data_size == type_descriptor_[c].element_size
                            * type_descriptor_[c].number_of_elements
       IN  IF data_size <= MaxVariableSize
           THEN /\ s_data_size' = [s_data_size EXCEPT ![t] = data_size]
                /\ s_ts' = [s_ts EXCEPT ![t] = now]
                /\ s_out' = [s_out EXCEPT ![t] = [i \in 1..data_size |-> 0]]
                /\ s_success' = [s_success EXCEPT ![t] = FALSE]
                /\ pc' = [pc EXCEPT ![t] = "s_lock"]
                /\ t_this' = [t_this EXCEPT ![t] = c]
                /\ s_called_at' = [s_called_at EXCEPT ![t] = now]
                /\ s_clock_reads' = [s_clock_reads EXCEPT ![t] = 1]
                /\ UNCHANGED trapped
           ELSE /\ trapped' = TRUE
                /\ UNCHANGED <<sampleLocals, pc, t_this, s_called_at, s_clock_reads>>
    /\ UNCHANGED <<cs_owner, now, t_location, handles, pushed, s_top_at_cs, s_depth_at_cs,
                   s_expect, registryVars, queryVars>>
    /\ UNCHANGED <<callVars, startupVars>>

\* sample(), lines 677-681: the locals, before the critical section
SampleCall(t, c) ==
    /\ ~trapped
    /\ pc[t] = "idle"
    /\ life[c] = "alive"
    /\ LET data_size == type_descriptor_[c].element_size
                            * type_descriptor_[c].number_of_elements
       IN  IF data_size <= MaxVariableSize
           THEN /\ s_data_size' = [s_data_size EXCEPT ![t] = data_size]
                /\ s_ts' = [s_ts EXCEPT ![t] = 0]
                /\ s_out' = [s_out EXCEPT ![t] = [i \in 1..data_size |-> 0]]
                /\ s_success' = [s_success EXCEPT ![t] = FALSE]
                /\ pc' = [pc EXCEPT ![t] = "s_lock"]
                /\ t_this' = [t_this EXCEPT ![t] = c]
                /\ s_called_at' = [s_called_at EXCEPT ![t] = now]
                /\ s_clock_reads' = [s_clock_reads EXCEPT ![t] = 0]
                /\ UNCHANGED trapped
           ELSE /\ trapped' = TRUE
                /\ UNCHANGED <<sampleLocals, pc, t_this, s_called_at, s_clock_reads>>
    /\ UNCHANGED <<cs_owner, now, t_location, handles, pushed, s_top_at_cs, s_depth_at_cs,
                   s_expect, registryVars, queryVars>>
    /\ UNCHANGED <<callVars, startupVars>>

\* sample(), line 685: CriticalSectionLocker locker
SampleAcquire(t) ==
    /\ ~trapped
    /\ pc[t] = "s_lock"
    /\ Lock(t)
    /\ pc' = [pc EXCEPT ![t] = "s_time"]
    /\ s_top_at_cs' = [s_top_at_cs EXCEPT ![t] = live_variable_stack_top_[t_this[t]]]
    /\ s_depth_at_cs' = [s_depth_at_cs EXCEPT ![t] = Len(pushed[t_this[t]])]
    /\ s_expect' = [s_expect EXCEPT ![t] = Youngest(pushed[t_this[t]])]
    /\ UNCHANGED <<now, trapped, t_this, t_location, sampleLocals, handles, pushed,
                   s_called_at, s_clock_reads, registryVars, queryVars>>
    /\ UNCHANGED <<callVars, startupVars>>

\* A sample() that never reads the clock
SampleTime_WithoutClock(t) ==
    /\ ~trapped
    /\ pc[t] = "s_time"
    /\ pc' = [pc EXCEPT ![t] = "s_test"]
    /\ UNCHANGED <<cs_owner, now, trapped, t_this, t_location, sampleLocals, handles,
                   historyVars, registryVars, queryVars>>
    /\ UNCHANGED <<callVars, startupVars>>

\* sample(), line 688: ts = getTimeFromCriticalSection()
SampleTime(t) ==
    /\ ~trapped
    /\ pc[t] = "s_time"
    /\ s_ts' = [s_ts EXCEPT ![t] = now]
    /\ s_clock_reads' = [s_clock_reads EXCEPT ![t] = @ + 1]
    /\ pc' = [pc EXCEPT ![t] = "s_test"]
    /\ UNCHANGED <<cs_owner, now, trapped, t_this, t_location, s_data_size, s_out,
                   s_success, handles, pushed, s_called_at, s_top_at_cs, s_depth_at_cs,
                   s_expect, registryVars, queryVars>>
    /\ UNCHANGED <<callVars, startupVars>>

\* Mutant: the buffer is cleared where the cached top is found to be null
SampleTest_ClearsInside(t) ==
    /\ ~trapped
    /\ pc[t] = "s_test"
    /\ pc' = [pc EXCEPT ![t] = IF live_variable_stack_top_[t_this[t]] # NULL
                               THEN "s_copy" ELSE "s_unlock"]
    /\ s_out' = [s_out EXCEPT ![t] = IF live_variable_stack_top_[t_this[t]] # NULL
                                     THEN @ ELSE <<>>]
    /\ UNCHANGED <<cs_owner, now, trapped, t_this, t_location, s_data_size, s_ts,
                   s_success, handles, historyVars, registryVars, queryVars>>
    /\ UNCHANGED <<callVars, startupVars>>

\* sample(), line 690: if (live_variable_stack_top_ != nullptr)
SampleTest(t) ==
    /\ ~trapped
    /\ pc[t] = "s_test"
    /\ pc' = [pc EXCEPT ![t] = IF live_variable_stack_top_[t_this[t]] # NULL
                               THEN "s_copy" ELSE "s_unlock"]
    /\ UNCHANGED <<cs_owner, now, trapped, t_this, t_location, sampleLocals, handles,
                   historyVars, registryVars, queryVars>>
    /\ UNCHANGED <<callVars, startupVars>>

\* sample(), lines 692-695: the bytes are copied from the cached top
SampleCopy(t) ==
    /\ ~trapped
    /\ pc[t] = "s_copy"
    /\ s_out' = [s_out EXCEPT ![t] =
                    copyBytesQuicklyAndUnsafely(s_data_size[t],
                                                live_variable_stack_top_[t_this[t]],
                                                OutAddress(t), OutAddress(t), s_out[t])]
    /\ s_success' = [s_success EXCEPT ![t] = TRUE]
    /\ pc' = [pc EXCEPT ![t] = "s_unlock"]
    /\ UNCHANGED <<cs_owner, now, trapped, t_this, t_location, s_data_size, s_ts,
                   handles, historyVars, registryVars, queryVars>>
    /\ UNCHANGED <<callVars, startupVars>>

\* sample(), line 697: the locker is destroyed
SampleRelease(t) ==
    /\ ~trapped
    /\ pc[t] = "s_unlock"
    /\ Unlock(t)
    /\ pc' = [pc EXCEPT ![t] = "s_clear"]
    /\ UNCHANGED <<now, trapped, t_this, t_location, sampleLocals, handles,
                   historyVars, registryVars, queryVars>>
    /\ UNCHANGED <<callVars, startupVars>>

\* A sample() that returns out as it was sized
SampleFinish_WithoutClear(t) ==
    /\ ~trapped
    /\ pc[t] = "s_clear"
    /\ pc' = [pc EXCEPT ![t] = "s_done"]
    /\ UNCHANGED <<cs_owner, now, trapped, t_this, t_location, sampleLocals, handles,
                   historyVars, registryVars, queryVars>>
    /\ UNCHANGED <<callVars, startupVars>>

\* sample(), lines 699-704: out is cleared if nothing was copied, and
\* {ts, out} is returned
SampleFinish(t) ==
    /\ ~trapped
    /\ pc[t] = "s_clear"
    /\ s_out' = [s_out EXCEPT ![t] = IF ~s_success[t] THEN <<>> ELSE @]
    /\ pc' = [pc EXCEPT ![t] = "s_done"]
    /\ UNCHANGED <<cs_owner, now, trapped, t_this, t_location, s_data_size, s_ts,
                   s_success, handles, historyVars, registryVars, queryVars>>
    /\ UNCHANGED <<callVars, startupVars>>

\* The caller has used the returned pair
SampleReturn(t) ==
    /\ ~trapped
    /\ pc[t] = "s_done"
    /\ pc' = [pc EXCEPT ![t] = "idle"]
    /\ t_this' = [t_this EXCEPT ![t] = NULL]
    /\ s_data_size' = [s_data_size EXCEPT ![t] = 0]
    /\ s_ts' = [s_ts EXCEPT ![t] = 0]
    /\ s_out' = [s_out EXCEPT ![t] = <<>>]
    /\ s_success' = [s_success EXCEPT ![t] = FALSE]
    /\ s_called_at' = [s_called_at EXCEPT ![t] = 0]
    /\ s_top_at_cs' = [s_top_at_cs EXCEPT ![t] = NULL]
    /\ s_depth_at_cs' = [s_depth_at_cs EXCEPT ![t] = 0]
    /\ s_expect' = [s_expect EXCEPT ![t] = NULL]
    /\ s_clock_reads' = [s_clock_reads EXCEPT ![t] = 0]
    /\ UNCHANGED <<cs_owner, now, trapped, t_location, handles, pushed, registryVars,
                   queryVars>>
    /\ UNCHANGED <<callVars, startupVars>>

\* The clock that getTimeFromCriticalSection() reads advances
Tick ==
    /\ ~trapped
    /\ now < MaxTime
    /\ now' = now + 1
    /\ UNCHANGED <<cs_owner, trapped, pc, t_this, t_location, sampleLocals, handles,
                   historyVars, registryVars, queryVars>>
    /\ UNCHANGED <<callVars, startupVars>>

-----------------------------------------------------------------------------
(* The program with its probes: the categories of the probes "a" and "b"   *)
(* are constructed before main() and live until the program ends           *)

Init ==
    /\ InitThreads
    /\ NoCall
    /\ this_category_ = [c \in ProbeCategories |-> c]
    /\ initialized = [c \in ProbeCategories |-> TRUE]
    /\ phase = "main"
    /\ static_order = <<[kind |-> "Category", object |-> 1],
                        [kind |-> "Category", object |-> 2]>>
    /\ root = 2
    /\ next_instance_in_list_ =
           [c \in CategoryIds |-> IF c = 1 THEN NULL ELSE IF c = 2 THEN 1
                                  ELSE Uninitialized]
    /\ name_ = [c \in CategoryIds |->
                   IF c \in ProbeCategories THEN NameOf[CategoryText(c)] ELSE EmptyName]
    /\ type_descriptor_ = [c \in CategoryIds |->
                   IF c \in ProbeCategories THEN CategoryType(c)
                   ELSE DefaultTypeDescriptor]
    /\ live_variable_stack_ = [c \in CategoryIds |->
                   IF c \in ProbeCategories THEN <<>> ELSE <<Uninitialized>>]
    /\ live_variable_stack_top_ = [c \in CategoryIds |->
                   IF c \in ProbeCategories THEN NULL ELSE Uninitialized]
    /\ life = [c \in CategoryIds |-> IF c \in ProbeCategories THEN "alive" ELSE "unborn"]
    /\ created = <<1, 2>>
    /\ dtor_this = NULL
    /\ dtor_item = NULL
    /\ dtor_pc = "none"
    /\ dtor_iterations = 0
    /\ dtor_before = <<>>
    /\ q_op = "none"
    /\ q_index = 0
    /\ q_text = <<>>
    /\ q_ret = 0

Next ==
    \/ \E t \in Threads, c \in ProbeCategories : PushCall(t, c)
    \/ \E t \in Threads : PushAcquire(t)
    \/ \E t \in Threads : PushBack(t)
    \/ \E t \in Threads : PushTop(t)
    \/ \E t \in Threads : PushRelease(t)
    \/ \E t \in Threads : PopCall(t)
    \/ \E t \in Threads : PopAcquire(t)
    \/ \E t \in Threads : PopBack(t)
    \/ \E t \in Threads : PopTop(t)
    \/ \E t \in Threads : PopRelease(t)
    \/ \E t \in Samplers, c \in ProbeCategories : SampleCall(t, c)
    \/ \E t \in Threads : SampleAcquire(t)
    \/ \E t \in Threads : SampleTime(t)
    \/ \E t \in Threads : SampleTest(t)
    \/ \E t \in Threads : SampleCopy(t)
    \/ \E t \in Threads : SampleRelease(t)
    \/ \E t \in Threads : SampleFinish(t)
    \/ \E t \in Threads : SampleReturn(t)
    \/ Tick

Spec == Init /\ [][Next]_vars

-----------------------------------------------------------------------------
(* The life of a program with probes: static initialization, main() and    *)
(* the destruction of the static objects at exit.  One Probe type exists   *)
(* per declaration (name and type of the variable); object s is the        *)
(* function-local static `instance` of the Probe type s.                   *)

\* The thread that runs the static initializers, main() and the destructors
MainThread == 1

\* The entry of static_order for an object of static storage duration
StaticObject(kind, object) == [kind |-> kind, object |-> object]

\* A getThisCategory() that constructs `instance` at every call
getThisCategory_ConstructsAgain(s) ==
    /\ CategoryConstructor(s, CategoryType(s), NameOf[CategoryText(s)])
    /\ life' = [life EXCEPT ![s] = "alive"]
    /\ created' = Append(created, s)

\* Probe<...>::getThisCategory(), lines 741-745: the first call constructs
\* `instance`, every call returns its address (here: s)
getThisCategory(s) ==
    IF life[s] = "unborn"
    THEN /\ CategoryConstructor(s, CategoryType(s), NameOf[CategoryText(s)])
         /\ life' = [life EXCEPT ![s] = "alive"]
         /\ created' = Append(created, s)
    ELSE UNCHANGED <<root, next_instance_in_list_, name_, type_descriptor_,
                     live_variable_stack_, live_variable_stack_top_, life, created>>

\* static_order after a call of getThisCategory(): `instance` is registered
\* for destruction when its construction completes
AfterGetThisCategory(s) ==
    IF life[s] = "unborn" /\ life'[s] = "alive"
    THEN Append(static_order, StaticObject("Category", s))
    ELSE static_order

\* A this_category_ that is initialized with a null pointer
ThisCategoryInitializer_Null(s) ==
    /\ ~trapped
    /\ phase = "static_init"
    /\ ~initialized[s]
    /\ pc[MainThread] = "idle"
    /\ initialized' = [initialized EXCEPT ![s] = TRUE]
    /\ UNCHANGED <<registryVars, this_category_, static_order, phase, queryVars,
                   threadVars, historyVars, callVars>>

\* The Category as a plain static object instead of a pointer: its
\* constructor runs at its turn of the static initialization, also when a
\* Probe has used the object before (the comment of lines 747-753)
ThisCategoryInitializer_PlainStatic(s) ==
    /\ ~trapped
    /\ phase = "static_init"
    /\ ~initialized[s]
    /\ pc[MainThread] = "idle"
    /\ CategoryConstructor(s, CategoryType(s), NameOf[CategoryText(s)])
    /\ life' = [life EXCEPT ![s] = "alive"]
    /\ created' = Append(created, s)
    /\ static_order' = Append(static_order, StaticObject("Category", s))
    /\ this_category_' = [this_category_ EXCEPT ![s] = s]
    /\ initialized' = [initialized EXCEPT ![s] = TRUE]
    /\ UNCHANGED <<dtor_this, dtor_item, dtor_pc, dtor_iterations, dtor_before,
                   phase, queryVars, threadVars, historyVars, callVars>>

\* Lines 795-798: the dynamic initializer of the static member
\* this_category_ of the Probe type s: this_category_ = getThisCategory()
ThisCategoryInitializer(s) ==
    /\ ~trapped
    /\ phase = "static_init"
    /\ ~initialized[s]
    /\ pc[MainThread] = "idle"
    /\ getThisCategory(s)
    /\ static_order' = AfterGetThisCategory(s)
    /\ this_category_' = [this_category_ EXCEPT ![s] = s]
    /\ initialized' = [initialized EXCEPT ![s] = TRUE]
    /\ UNCHANGED <<dtor_this, dtor_item, dtor_pc, dtor_iterations, dtor_before,
                   phase, queryVars, threadVars, historyVars, callVars>>

\* The Probe objects of static storage duration
StaticProbes == SelectSeq(static_order, LAMBDA e : e.kind = "Probe")

\* Probe::Probe(value), lines 760-769, for a Probe of type s: this_category_
\* is bound if it is still null, then pushVariable(value) is called.  During
\* the static initialization the Probe is an object of static storage
\* duration (as the test's probe "static"), in main() an automatic one.
ProbeConstructor(s) ==
    /\ ~trapped
    /\ phase \in {"static_init", "main"}
    /\ pc[MainThread] = "idle"
    /\ Len(handles[1]) + Len(handles[2]) < MaxProbes
    /\ IF this_category_[s] = NULL
       THEN /\ getThisCategory(s)
            /\ this_category_' = [this_category_ EXCEPT ![s] = s]
       ELSE UNCHANGED <<root, next_instance_in_list_, name_, type_descriptor_,
                        live_variable_stack_, live_variable_stack_top_, life,
                        created, this_category_>>
    /\ static_order' =
           LET order == IF this_category_[s] = NULL THEN AfterGetThisCategory(s)
                        ELSE static_order
           IN  IF phase = "static_init"
               THEN Append(order, StaticObject("Probe", Len(handles[MainThread]) + 1))
               ELSE order
    /\ pc' = [pc EXCEPT ![MainThread] = "p_lock"]
    /\ t_this' = [t_this EXCEPT ![MainThread] = this_category_'[s]]
    /\ t_location' = [t_location EXCEPT ![MainThread] =
                         VariableAddress(MainThread, s, Len(handles[MainThread]))]
    /\ handles' = [handles EXCEPT ![MainThread] =
                      Append(@, [category |-> this_category_'[s],
                                 location |-> VariableAddress(MainThread, s,
                                                              Len(handles[MainThread]))])]
    /\ UNCHANGED <<dtor_this, dtor_item, dtor_pc, dtor_iterations, dtor_before,
                   initialized, phase, queryVars, cs_owner, now, trapped,
                   sampleLocals, historyVars, callVars>>

\* The static initialization is complete: main() is entered
MainStarts ==
    /\ ~trapped
    /\ phase = "static_init"
    /\ \A s \in ProbeCategories : initialized[s]
    /\ pc[MainThread] = "idle"
    /\ phase' = "main"
    /\ UNCHANGED <<registryVars, this_category_, initialized, static_order,
                   queryVars, threadVars, historyVars, callVars>>

\* Probe::~Probe(), lines 785-788, of the youngest automatic Probe of main()
MainProbeDestructor ==
    /\ phase = "main"
    /\ Len(handles[MainThread]) > Len(StaticProbes)
    /\ PopCall(MainThread)

\* main() calls countCategories() or findCategoryByName()
MainQuery ==
    /\ ~trapped
    /\ phase = "main"
    /\ pc[MainThread] = "idle"
    /\ \/ QueryCount
       \/ \E text \in CategoryTexts : QueryByName(text)

\* main() returns: its automatic objects are gone
MainReturns ==
    /\ ~trapped
    /\ phase = "main"
    /\ pc[MainThread] = "idle"
    /\ Len(handles[MainThread]) = Len(StaticProbes)
    /\ phase' = "exit"
    /\ UNCHANGED <<registryVars, this_category_, initialized, static_order,
                   queryVars, threadVars, historyVars, callVars>>

\* The static objects that are not destroyed yet, and the one that is
\* destroyed next: the one whose construction was completed last
NotDestroyed ==
    SelectSeq(static_order,
              LAMBDA e : IF e.kind = "Category" THEN life[e.object] # "dead"
                         ELSE e.object <= Len(handles[MainThread]))

\* At exit the destructor of a static Probe runs
ExitProbeDestructor ==
    /\ phase = "exit"
    /\ NotDestroyed # <<>>
    /\ NotDestroyed[Len(NotDestroyed)].kind = "Probe"
    /\ PopCall(MainThread)

\* At exit the destructor of the `instance` of a Probe type runs.  The
\* objects are destroyed in the reverse order of their construction, so the
\* one destroyed is the head of the list and ~Category() does not search.
ExitCategoryDestructor ==
    /\ ~trapped
    /\ phase = "exit"
    /\ pc[MainThread] = "idle"
    /\ NotDestroyed # <<>>
    /\ NotDestroyed[Len(NotDestroyed)].kind = "Category"
    /\ DtorEnter(NotDestroyed[Len(NotDestroyed)].object)

InitProgram ==
    /\ InitThreads
    /\ NoCall
    /\ this_category_ = [c \in ProbeCategories |-> NULL]
    /\ initialized = [c \in ProbeCategories |-> FALSE]
    /\ phase = "static_init"
    /\ static_order = <<>>
    /\ root = NULL
    /\ next_instance_in_list_ = [c \in CategoryIds |-> Uninitialized]
    /\ name_ = [c \in CategoryIds |-> EmptyName]
    /\ type_descriptor_ = [c \in CategoryIds |-> DefaultTypeDescriptor]
    /\ live_variable_stack_ = [c \in CategoryIds |-> <<Uninitialized>>]
    /\ live_variable_stack_top_ = [c \in CategoryIds |-> Uninitialized]
    /\ life = [c \in CategoryIds |-> "unborn"]
    /\ created = <<>>
    /\ dtor_this = NULL
    /\ dtor_item = NULL
    /\ dtor_pc = "none"
    /\ dtor_iterations = 0
    /\ dtor_before = <<>>
    /\ q_op = "none"
    /\ q_index = 0
    /\ q_text = <<>>
    /\ q_ret = 0

NextProgram ==
    \/ \E s \in ProbeCategories : ThisCategoryInitializer(s)
    \/ \E s \in ProbeCategories : ProbeConstructor(s)
    \/ MainStarts
    \/ MainProbeDestructor
    \/ MainQuery
    \/ MainReturns
    \/ ExitProbeDestructor
    \/ ExitCategoryDestructor
    \/ DtorReturn
    \/ PushAcquire(MainThread)
    \/ PushBack(MainThread)
    \/ PushTop(MainThread)
    \/ PushRelease(MainThread)
    \/ PopAcquire(MainThread)
    \/ PopBack(MainThread)
    \/ PopTop(MainThread)
    \/ PopRelease(MainThread)

SpecProgram == InitProgram /\ [][NextProgram]_vars

-----------------------------------------------------------------------------
(* Calls of the functions of Name.  The texts are C strings given as the    *)
(* sequence of their characters before the terminator, each a code 1..255.  *)

\* Longest text of which every combination of Characters is tried
MaxShortText == 2

\* How far below and above MaxLength the lengths of the filled texts go
MaxMargin == 2

\* '1', 'a', and two characters outside 7-bit ASCII: '\x80' and 'a' | 0x80
Characters == {49, 97, 128, 225}

ShortTexts == UNION { [1..n -> Characters] : n \in 0..MaxShortText }

\* Lengths whose period of repetition n + 1 divides MaxLength or does not,
\* and the lengths around MaxLength
FilledLengths == {5, 8, 17} \cup ((MaxLength - MaxMargin)..(MaxLength + MaxMargin))

\* A text of n characters: digits as in the long name of the tests, with
\* the first and the last character as given
Filled(n, first, last) ==
    [i \in 1..n |-> IF i = 1 THEN first
                    ELSE IF i = n THEN last
                    ELSE 48 + ((i - 1) % 10)]

FilledTexts == { Filled(n, first, last) : n \in FilledLengths, first \in Characters,
                                          last \in Characters }

NameTexts == ShortTexts \cup FilledTexts

libraryVars == <<registryVars, queryVars, threadVars, historyVars, startupVars>>

\* Name(a) == Name(b)
CallOperatorEquals ==
    /\ f_op = "none"
    /\ f_op' = "operator=="
    /\ f_out' = NameEquals(Name(f_in[1]), Name(f_in[2]))
    /\ UNCHANGED <<f_in, libraryVars>>

\* Name(a).toString()
CallToString ==
    /\ f_op = "none"
    /\ f_op' = "toString"
    /\ f_out' = toString(Name(f_in[1]))
    /\ UNCHANGED <<f_in, libraryVars>>

\* Name::isValidName(a)
CallIsValidName ==
    /\ f_op = "none"
    /\ f_op' = "isValidName"
    /\ f_out' = isValidName(f_in[1])
    /\ UNCHANGED <<f_in, libraryVars>>

\* Name(a).getEncodedChunks()
CallGetEncodedChunks ==
    /\ f_op = "none"
    /\ f_op' = "getEncodedChunks"
    /\ f_out' = Name(f_in[1])
    /\ UNCHANGED <<f_in, libraryVars>>

InitName ==
    /\ EmptyRegistry
    /\ f_op = "none"
    /\ f_in \in NameTexts \X NameTexts
    /\ f_out = <<>>

NextName ==
    \/ CallOperatorEquals
    \/ CallToString
    \/ CallIsValidName
    \/ CallGetEncodedChunks

SpecName == InitName /\ [][NextName]_vars

-----------------------------------------------------------------------------
(* A call of impl_::copyBytesQuicklyAndUnsafely(size, src, dst), followed   *)
(* one iteration of its loops at a time.  f_in is <<size, src, dst>> as     *)
(* passed; f_out holds the parameters as the loops change them, and the     *)
(* memory around the destination.                                           *)

\* Largest size passed (it reaches two words and a byte more)
MaxCopySize == 17

\* Bytes before and after dst[0..size) that the model keeps track of
GuardBytes == WordSize

\* Source and destination of the call, `a` bytes above a word boundary
CopySource(a) == 1024 + a
CopyDestination(a) == 4096 + a

\* The address of the first byte of the memory around dst[0..size)
CopyBase(dst) == dst - GuardBytes

\* No byte of the memory around the destination has been written
Unwritten(size) == [k \in 1..(size + (2 * GuardBytes)) |-> Uninitialized]

\* lines 516-518: the test for the word copy, and the entry into a do-while
CopyCall ==
    /\ f_op = "none"
    /\ f_op' = IF (f_in[1] % WordSize = 0) /\ (f_in[3] % WordSize = 0)
                  /\ (f_in[2] % WordSize = 0)
               THEN "words" ELSE "bytes"
    /\ f_out' = [size |-> f_in[1], src |-> f_in[2], dst |-> f_in[3],
                 buf |-> Unwritten(f_in[1])]
    /\ UNCHANGED <<f_in, libraryVars>>

\* Mutant: the word loop goes on while size >= 0
CopyWord_OneMore ==
    /\ f_op = "words"
    /\ f_out' = [size |-> f_out.size - WordSize,
                 src |-> f_out.src + WordSize,
                 dst |-> f_out.dst + WordSize,
                 buf |-> StoreWord(f_out.buf, CopyBase(f_in[3]), f_out.dst, f_out.src, 0)]
    /\ f_op' = IF f_out.size - WordSize >= 0 THEN "words" ELSE "return"
    /\ UNCHANGED <<f_in, libraryVars>>

\* lines 521-527: one iteration of the word copy
CopyWord ==
    /\ f_op = "words"
    /\ f_out' = [size |-> f_out.size - WordSize,
                 src |-> f_out.src + WordSize,
                 dst |-> f_out.dst + WordSize,
                 buf |-> StoreWord(f_out.buf, CopyBase(f_in[3]), f_out.dst, f_out.src, 0)]
    /\ f_op' = IF f_out.size - WordSize > 0 THEN "words" ELSE "return"
    /\ UNCHANGED <<f_in, libraryVars>>

\* lines 532-538: one iteration of the byte copy
CopyByte ==
    /\ f_op = "bytes"
    /\ f_out' = [size |-> f_out.size - 1,
                 src |-> f_out.src + 1,
                 dst |-> f_out.dst + 1,
                 buf |-> StoreByte(f_out.buf, CopyBase(f_in[3]), f_out.dst, Mem(f_out.src))]
    /\ f_op' = IF f_out.size - 1 # 0 THEN "bytes" ELSE "return"
    /\ UNCHANGED <<f_in, libraryVars>>

\* The size is not zero, as the documentation of the function requires
InitCopy ==
    /\ EmptyRegistry
    /\ f_op = "none"
    /\ \E size \in 1..MaxCopySize, a \in 0..(WordSize - 1), b \in 0..(WordSize - 1) :
           f_in = <<size, CopySource(a), CopyDestination(b)>>
    /\ f_out = <<>>

NextCopy ==
    \/ CopyCall
    \/ CopyWord
    \/ CopyByte

\* The caller runs the function to its end
SpecCopy == InitCopy /\ [][NextCopy]_vars /\ WF_vars(NextCopy)

-----------------------------------------------------------------------------
(* A thread that nests more Probe objects of one Category than the stack of *)
(* the Category holds, in a build with assertions: the main thread          *)
(* constructs and destroys the Probes, thread 2 samples.                    *)

\* How many Probe objects beyond the capacity of one stack the thread nests
MaxExcess == 1

NestingLimit == MaxNumberOfCoexistentProbesOfSameCategory + MaxExcess

NextOverflow ==
    \/ \E c \in ProbeCategories : PushCallWithin(MainThread, c, NestingLimit)
    \/ PushAcquire(MainThread)
    \/ PushBack(MainThread)
    \/ PushTop(MainThread)
    \/ PushRelease(MainThread)
    \/ PopCall(MainThread)
    \/ PopAcquire(MainThread)
    \/ PopBack(MainThread)
    \/ PopTop(MainThread)
    \/ PopRelease(MainThread)
    \/ \E t \in Samplers, c \in ProbeCategories : SampleCall(t, c)
    \/ \E t \in Samplers : SampleAcquire(t)
    \/ \E t \in Samplers : SampleTime(t)
    \/ \E t \in Samplers : SampleTest(t)
    \/ \E t \in Samplers : SampleCopy(t)
    \/ \E t \in Samplers : SampleRelease(t)
    \/ \E t \in Samplers : SampleFinish(t)
    \/ \E t \in Samplers : SampleReturn(t)
    \/ Tick

SpecOverflow == Init /\ [][NextOverflow]_vars

-----------------------------------------------------------------------------
(* The same thread in a build without assertions (NDEBUG), where a          *)
(* push_back() into a full vector stores nothing and the program goes on.   *)

\* pushVariable(), line 625, without assertions: a push beyond the capacity
\* stores nothing
ReleasePushBack(t) ==
    /\ pc[t] = "p_push"
    /\ live_variable_stack_' =
           [live_variable_stack_ EXCEPT ![t_this[t]] =
                IF Len(@) < MaxNumberOfCoexistentProbesOfSameCategory
                THEN Append(@, t_location[t]) ELSE @]
    /\ pc' = [pc EXCEPT ![t] = "p_top"]
    /\ UNCHANGED <<cs_owner, now, trapped, t_this, t_location, sampleLocals, handles,
                   historyVars, listVars, live_variable_stack_top_, queryVars>>
    /\ UNCHANGED <<callVars, startupVars>>

\* popVariable(), line 640, without assertions: pop_back() removes the last
\* element; on an empty vector its behaviour is not defined: the vector
\* stays empty, or its size wraps and back() is an indeterminate value
ReleasePopBack(t) ==
    /\ pc[t] = "q_pop"
    /\ IF live_variable_stack_[t_this[t]] # <<>>
       THEN live_variable_stack_' =
                [live_variable_stack_ EXCEPT ![t_this[t]] = SubSeq(@, 1, Len(@) - 1)]
       ELSE \E outcome \in {<<>>, <<Uninitialized>>} :
                live_variable_stack_' =
                    [live_variable_stack_ EXCEPT ![t_this[t]] = outcome]
    /\ pc' = [pc EXCEPT ![t] = "q_top"]
    /\ UNCHANGED <<cs_owner, now, trapped, t_this, t_location, sampleLocals, handles,
                   historyVars, listVars, live_variable_stack_top_, queryVars>>
    /\ UNCHANGED <<callVars, startupVars>>

NextRelease ==
    \/ \E c \in ProbeCategories : PushCallWithin(MainThread, c, NestingLimit)
    \/ PushAcquire(MainThread)
    \/ ReleasePushBack(MainThread)
    \/ PushTop(MainThread)
    \/ PushRelease(MainThread)
    \/ PopCall(MainThread)
    \/ PopAcquire(MainThread)
    \/ ReleasePopBack(MainThread)
    \/ PopTop(MainThread)
    \/ PopRelease(MainThread)
    \/ \E t \in Samplers, c \in ProbeCategories : SampleCall(t, c)
    \/ \E t \in Samplers : SampleAcquire(t)
    \/ \E t \in Samplers : SampleTime(t)
    \/ \E t \in Samplers : SampleTest(t)
    \/ \E t \in Samplers : SampleCopy(t)
    \/ \E t \in Samplers : SampleRelease(t)
    \/ \E t \in Samplers : SampleFinish(t)
    \/ \E t \in Samplers : SampleReturn(t)
    \/ Tick

SpecRelease == Init /\ [][NextRelease]_vars

-----------------------------------------------------------------------------
(* Categories of any name and type: those of Probe types, which the         *)
(* function-local static of getThisCategory() constructs once for each pair *)
(* of a compile-time type descriptor and a name, and objects of a user's    *)
(* subclass of Category, constructed with any TypeDescriptor and name and   *)
(* destroyed at the end of their scope.                                     *)

\* Names of the declarations: "a" and the empty string
DeclaredTexts == { <<97>>, <<>> }

DeclaredName == [text \in DeclaredTexts |-> Name(text)]

\* CompileTimeTypeDescriptor<>::getRuntimeTypeDescriptor() of the traced
\* types std::int32_t and an array of MaxVariableSize / 4 floats
ProbeDescriptors ==
    { TypeDescriptor("Integer", 4, 1), TypeDescriptor("Real", 4, MaxVariableSize \div 4) }

\* What a user's subclass passes: TypeDescriptor() as in the test, or a
\* descriptor of its own
UserDescriptors == { DefaultTypeDescriptor, TypeDescriptor("Integer", 4, 1) }

\* The Category objects that are function-local statics of Probe types
ProbeCategoryObjects ==
    { static_order[i].object : i \in { j \in 1..Len(static_order) :
                                          static_order[j].kind = "Category" } }

\* The storage of the next Category object
NextObject == Len(created) + 1

\* Mutant: getThisCategory() of a Probe type passes TypeDescriptor()
ConstructProbeCategory_DefaultDescriptor(descriptor, text) ==
    /\ RegistryIdle
    /\ NextObject \in CategoryIds
    /\ \A o \in ProbeCategoryObjects :
           ~(type_descriptor_[o] = descriptor /\ name_[o] = DeclaredName[text])
    /\ CategoryConstructor(NextObject, DefaultTypeDescriptor, DeclaredName[text])
    /\ life' = [life EXCEPT ![NextObject] = "alive"]
    /\ created' = Append(created, NextObject)
    /\ static_order' = Append(static_order, StaticObject("Category", NextObject))
    /\ q_op' = "none" /\ q_index' = 0 /\ q_text' = <<>> /\ q_ret' = 0
    /\ UNCHANGED <<dtor_this, dtor_item, dtor_pc, dtor_iterations, dtor_before>>
    /\ UNCHANGED <<threadVars, historyVars, callVars>>
    /\ UNCHANGED <<this_category_, initialized, phase>>

\* Probe<CompileTimeTypeDescriptor, EncodedNameChunks...>::getThisCategory()
\* is called for the first time: its static PublicMorozov is constructed
\* with the descriptor and the name of the Probe type
ConstructProbeCategory(descriptor, text) ==
    /\ RegistryIdle
    /\ NextObject \in CategoryIds
    /\ \A o \in ProbeCategoryObjects :
           ~(type_descriptor_[o] = descriptor /\ name_[o] = DeclaredName[text])
    /\ CategoryConstructor(NextObject, descriptor, DeclaredName[text])
    /\ life' = [life EXCEPT ![NextObject] = "alive"]
    /\ created' = Append(created, NextObject)
    /\ static_order' = Append(static_order, StaticObject("Category", NextObject))
    /\ q_op' = "none" /\ q_index' = 0 /\ q_text' = <<>> /\ q_ret' = 0
    /\ UNCHANGED <<dtor_this, dtor_item, dtor_pc, dtor_iterations, dtor_before>>
    /\ UNCHANGED <<threadVars, historyVars, callVars>>
    /\ UNCHANGED <<this_category_, initialized, phase>>

\* An object of a user's subclass is constructed:
\* PublicMorozov() : Category(descriptor, text)
ConstructUserCategory(descriptor, text) ==
    /\ RegistryIdle
    /\ NextObject \in CategoryIds
    /\ CategoryConstructor(NextObject, descriptor, DeclaredName[text])
    /\ life' = [life EXCEPT ![NextObject] = "alive"]
    /\ created' = Append(created, NextObject)
    /\ q_op' = "none" /\ q_index' = 0 /\ q_text' = <<>> /\ q_ret' = 0
    /\ UNCHANGED <<dtor_this, dtor_item, dtor_pc, dtor_iterations, dtor_before>>
    /\ UNCHANGED <<threadVars, historyVars, callVars, startupVars>>

\* The scope of an object of a user's subclass ends
DestroyUserCategory(this) ==
    /\ this \notin ProbeCategoryObjects
    /\ DtorEnter(this)

NextDeclared ==
    \/ \E descriptor \in ProbeDescriptors, text \in DeclaredTexts :
           ConstructProbeCategory(descriptor, text)
    \/ \E descriptor \in UserDescriptors, text \in DeclaredTexts :
           ConstructUserCategory(descriptor, text)
    \/ \E this \in CategoryIds : DestroyUserCategory(this)
    \/ DtorLoop
    \/ DtorReturn
    \/ QueryFirstNonUnique

SpecDeclared == InitRegistry /\ [][NextDeclared]_vars

-----------------------------------------------------------------------------
(* The program of Spec with the registry queries: the main thread           *)
(* constructs and destroys Probes and queries the registry, thread 2        *)
(* samples.                                                                 *)

NextQueried ==
    \/ \E c \in ProbeCategories : PushCall(MainThread, c)
    \/ PushAcquire(MainThread)
    \/ PushBack(MainThread)
    \/ PushTop(MainThread)
    \/ PushRelease(MainThread)
    \/ PopCall(MainThread)
    \/ PopAcquire(MainThread)
    \/ PopBack(MainThread)
    \/ PopTop(MainThread)
    \/ PopRelease(MainThread)
    \/ \E t \in Samplers, c \in ProbeCategories : SampleCall(t, c)
    \/ \E t \in Samplers : SampleAcquire(t)
    \/ \E t \in Samplers : SampleTime(t)
    \/ \E t \in Samplers : SampleTest(t)
    \/ \E t \in Samplers : SampleCopy(t)
    \/ \E t \in Samplers : SampleRelease(t)
    \/ \E t \in Samplers : SampleFinish(t)
    \/ \E t \in Samplers : SampleReturn(t)
    \/ \E index \in 0..Cardinality(ProbeCategories) : QueryByIndex(index)
    \/ \E text \in CategoryTexts : QueryByName(text)
    \/ QueryCount
    \/ QueryFirstNonUnique
    \/ Tick

SpecQueried == Init /\ [][NextQueried]_vars

-----------------------------------------------------------------------------
(* Properties of the stack of live variables and of sample()                *)

\* element_size * number_of_elements of the Category that thread t samples
DataSize(t) ==
    type_descriptor_[t_this[t]].element_size
        * type_descriptor_[t_this[t]].number_of_elements

\* The bytes of the variable at a location, as the memory holds them
BytesAt(location, size) == [i \in 1..size |-> Mem(location + i - 1)]

\* The threads inside a critical section, the ones inside the critical
\* section of sample(), and the ones inside that of a push or pop of c
InCriticalSection ==
    { t \in Threads : pc[t] \in {"p_push", "p_top", "p_unlock", "q_pop", "q_top",
                                 "q_unlock", "s_time", "s_test", "s_copy", "s_unlock"} }
Sampling == { t \in Threads : pc[t] \in {"s_time", "s_test", "s_copy", "s_unlock"} }
Updating(c) ==
    { t \in Threads : /\ t_this[t] = c
                      /\ pc[t] \in {"p_push", "p_top", "p_unlock", "q_pop", "q_top",
                                    "q_unlock"} }

\* C1: after any sequence of pushVariable() and popVariable() on a Category
\* that stays within the capacity, sample() returns the bytes of the most
\* recently pushed location that is not yet popped (after k pushes and then
\* j pops, the (k-j)-th pushed one), and no bytes when every pushed location
\* has been popped.
C1_SampleReadsYoungestLiveVariable ==
    \A t \in Threads :
        pc[t] = "s_done" =>
            s_out[t] = IF s_expect[t] = NULL THEN <<>>
                       ELSE BytesAt(s_expect[t], DataSize(t))

C1_Witness ==
    \E t \in Threads :
        /\ pc[t] = "s_done"
        /\ s_depth_at_cs[t] = 2
        /\ s_expect[t] = VariableAddress(1, t_this[t], 1)
        /\ s_out[t] = BytesAt(VariableAddress(1, t_this[t], 1), DataSize(t))

\* C2: the bytes that sample() returns have the length element_size *
\* number_of_elements if the cached top was not null, and the length 0
\* otherwise: no other length is returned.
C2_SampleLength ==
    \A t \in Threads :
        pc[t] = "s_done" =>
            Len(s_out[t]) = IF s_top_at_cs[t] # NULL THEN DataSize(t) ELSE 0

C2_Witness ==
    \E t \in Threads :
        /\ pc[t] = "s_done"
        /\ s_top_at_cs[t] # NULL
        /\ Len(s_out[t]) = 8

\* C3: sample() of a Category without a live variable returns a timestamp and
\* empty bytes, and the timestamp of every sample() is a value that the clock
\* had during the call.
C3_SampleTimestamp ==
    \A t \in Threads :
        pc[t] = "s_done" =>
            /\ s_called_at[t] <= s_ts[t]
            /\ s_ts[t] <= now
            /\ s_expect[t] = NULL => s_out[t] = <<>>

C3_Witness ==
    \E t \in Threads :
        /\ pc[t] = "s_done"
        /\ s_expect[t] = NULL
        /\ s_out[t] = <<>>
        /\ s_called_at[t] = 0
        /\ s_ts[t] = 1

\* C4: pushVariable(), popVariable() and sample() are ordered by their
\* critical sections: no two threads are inside one at the same time, outside
\* the critical section of a push or pop the stack holds the pushed locations
\* and the cached top is its last one, and between the lock and the unlock of
\* sample() no push or pop changes the Category that is sampled.
C4_CriticalSectionsAreOrdered ==
    /\ Cardinality(InCriticalSection) <= 1
    /\ \A t \in InCriticalSection : cs_owner = t
    /\ \A c \in ProbeCategories :
          Updating(c) = {} =>
              /\ live_variable_stack_[c] = pushed[c]
              /\ live_variable_stack_top_[c] = Youngest(live_variable_stack_[c])
    /\ \A t \in Sampling :
          /\ live_variable_stack_top_[t_this[t]] = s_top_at_cs[t]
          /\ Len(pushed[t_this[t]]) = s_depth_at_cs[t]
          /\ Youngest(pushed[t_this[t]]) = s_expect[t]

C4_Witness ==
    \E t \in Sampling, u \in Threads :
        /\ pc[t] = "s_copy"
        /\ pc[u] \in {"p_lock", "q_lock"}
        /\ t_this[u] = t_this[t]

-----------------------------------------------------------------------------
(* Properties of the program with probes (checked under SpecProgram)       *)

\* C13: when main() runs, the Category of every Probe type of the program is
\* linked in the registry, whether or not a Probe of that type has been
\* constructed, and countCategories() is the number of Probe types.
C13_ProbeTypesRegisteredBeforeMain ==
    phase = "main" =>
        /\ \A s \in ProbeCategories :
              /\ this_category_[s] = s
              /\ life[s] = "alive"
              /\ s \in Linked
              /\ name_[s] = Name(CategoryText(s))
              /\ type_descriptor_[s] = CategoryType(s)
        /\ countCategories = Cardinality(ProbeCategories)
        /\ q_op = "count" => q_ret = Cardinality(ProbeCategories)
        /\ q_op = "byName" => q_ret # NULL /\ name_[q_ret] = Name(q_text)

\* C13 witness: main() counts the categories and no Probe has been
\* constructed
C13_Witness ==
    /\ phase = "main"
    /\ q_op = "count"
    /\ q_ret = 2
    /\ StaticProbes = <<>>
    /\ handles[MainThread] = <<>>
    /\ \A s \in ProbeCategories : live_variable_stack_[s] = <<>>

\* C14: as long as a Probe exists, also a static one constructed before the
\* initializer of this_category_ has run, its Category is constructed and
\* not destroyed: the Category is constructed once, so its stack is never
\* initialized again after a push (it holds what was pushed and not popped),
\* no popVariable() finds the stack empty, and at exit every ~Category()
\* finds its object at the head of the list.
C14_CategoryOutlivesItsProbes ==
    /\ ~trapped
    /\ \A t \in Threads : \A i \in 1..Len(handles[t]) :
          /\ life[handles[t][i].category] = "alive"
          /\ handles[t][i].category \in Linked
    /\ \A c \in ProbeCategories :
          /\ Cardinality({ i \in 1..Len(created) : created[i] = c }) <= 1
          /\ (life[c] = "alive" /\ Updating(c) = {}) =>
                /\ live_variable_stack_[c] = pushed[c]
                /\ live_variable_stack_top_[c] = Youngest(pushed[c])
    /\ dtor_pc # "loop"

\* C14 witness: a static Probe has pushed its variable and the initializer
\* of this_category_ of its type has not run yet
C14_Witness ==
    \E s \in ProbeCategories :
        /\ phase = "static_init"
        /\ ~initialized[s]
        /\ this_category_[s] = s
        /\ pc[MainThread] = "idle"
        /\ live_variable_stack_[s] # <<>>

\* C15: the binding of a Probe type to its Category is made once: a bound
\* this_category_ never changes, a constructed Category is never constructed
\* or linked again, every Probe uses the Category of its type, and the
\* construction of a Probe of a type that is bound leaves the registry and
\* countCategories() as they were.
C15_BindingIsMadeOnce ==
    [][/\ \A s \in ProbeCategories :
             /\ this_category_[s] # NULL => this_category_'[s] = this_category_[s]
             /\ this_category_'[s] \in {NULL, s}
             /\ life[s] # "unborn" =>
                   Cardinality({ i \in 1..Len(created') : created'[i] = s }) = 1
             /\ Cardinality({ i \in 1..Len(Traversal') : Traversal'[i] = s }) <= 1
       /\ Len(handles'[MainThread]) > Len(handles[MainThread]) =>
             LET handle == handles'[MainThread][Len(handles'[MainThread])]
             IN  /\ handle.category \in ProbeCategories
                 /\ handle.category = this_category_'[handle.category]
                 /\ handle.location = VariableAddress(MainThread, handle.category,
                                                      Len(handles[MainThread]))
                 /\ this_category_[handle.category] # NULL =>
                       /\ Traversal' = Traversal
                       /\ countCategories' = countCategories
      ]_vars

\* C15 witness: two Probes of one type exist, one inside the other
C15_Witness ==
    /\ Len(handles[MainThread]) = 2
    /\ handles[MainThread][1].category = handles[MainThread][2].category
    /\ pc[MainThread] = "idle"
    /\ countCategories = 2
    /\ Len(live_variable_stack_[handles[MainThread][1].category]) = 2

-----------------------------------------------------------------------------
(* Properties of Name (checked under SpecName)                              *)

\* Every character of the text is a 7-bit character
SevenBit(text) == \A i \in 1..Len(text) : text[i] < 128

\* A valid name: not empty, 7-bit characters, at most MaxLength of them
ValidText(text) == Len(text) >= 1 /\ Len(text) <= MaxLength /\ SevenBit(text)

\* C16: for every valid name (not empty, 7-bit characters, length at most
\* MaxLength, the length MaxLength included), decoding the encoded Name gives
\* the text back: Name(name).toString() == name.
C16_DecodeReturnsValidName ==
    (f_op = "toString" /\ ValidText(f_in[1])) => f_out = f_in[1]

C16_Witness ==
    /\ f_op = "toString"
    /\ ValidText(f_in[1])
    /\ Len(f_in[1]) = MaxLength
    /\ f_out = f_in[1]

\* The C strings a and b differ in one of their first MaxLength characters
\* (the terminator of the shorter one counts as its character there)
DiffersWithinMaxLength(a, b) ==
    \E i \in 0..(MaxLength - 1) : CharAt(a, i) # CharAt(b, i)

\* C17 as stated: for all names a != b that differ anywhere within the first
\* MaxLength characters, the encoded Names are unequal: Name(a) != Name(b).
C17_DifferentTextsEncodeDifferently ==
    (f_op = "operator=="
        /\ f_in[1] # f_in[2]
        /\ DiffersWithinMaxLength(f_in[1], f_in[2]))
    => f_out = FALSE

\* C17, amended: for all names a != b of 7-bit characters that differ
\* anywhere within the first MaxLength characters, the encoded Names are
\* unequal.  (A character of 128 or more is encoded as its low 7 bits: it
\* collides with the 7-bit character that has these bits, and '\x80' with
\* the end of the text.)
C17_SevenBitTextsEncodeDifferently ==
    (f_op = "operator=="
        /\ f_in[1] # f_in[2]
        /\ SevenBit(f_in[1]) /\ SevenBit(f_in[2])
        /\ DiffersWithinMaxLength(f_in[1], f_in[2]))
    => f_out = FALSE

\* Two texts of 7-bit characters, of MaxLength characters and of one more,
\* that differ in the last of the first MaxLength characters only
C17_Witness ==
    /\ f_op = "operator=="
    /\ SevenBit(f_in[1]) /\ SevenBit(f_in[2])
    /\ Len(f_in[1]) = MaxLength
    /\ Len(f_in[2]) = MaxLength + 1
    /\ SubSeq(f_in[1], 1, MaxLength - 1) = SubSeq(f_in[2], 1, MaxLength - 1)
    /\ f_in[1][MaxLength] # f_in[2][MaxLength]
    /\ f_out = FALSE

\* C18: Name::isValidName(text) is false if the text is empty, false if a
\* character of it is 128 or more, false if it is longer than MaxLength, and
\* true for every other text (1 to MaxLength characters, all of them 7-bit).
C18_IsValidNameDecides ==
    f_op = "isValidName" =>
        /\ Len(f_in[1]) = 0 => f_out = FALSE
        /\ ~SevenBit(f_in[1]) => f_out = FALSE
        /\ Len(f_in[1]) > MaxLength => f_out = FALSE
        /\ (Len(f_in[1]) >= 1 /\ Len(f_in[1]) <= MaxLength /\ SevenBit(f_in[1]))
               => f_out = TRUE

\* A name of exactly MaxLength 7-bit characters is accepted
C18_Witness ==
    /\ f_op = "isValidName"
    /\ Len(f_in[1]) = MaxLength
    /\ SevenBit(f_in[1])
    /\ f_out = TRUE

\* C19 as stated: the encoding is wrap-fill, not zero padding: for a text of
\* length L < MaxLength, slot i (0 <= i < MaxLength, CharactersPerChunk slots
\* per chunk, lowest slot first) holds text[i mod (L+1)] when
\* (i mod (L+1)) < L and the null character otherwise; for L >= MaxLength
\* slot i holds the low 7 bits of text[i] and later characters are ignored.
C19_SlotsHoldTheCharacters ==
    f_op = "getEncodedChunks" =>
        LET text == f_in[1]
            L == Len(text)
        IN  \A i \in 0..(MaxLength - 1) :
                Slot(f_out, i) =
                    IF L < MaxLength
                    THEN IF i % (L + 1) < L THEN CharAt(text, i % (L + 1)) ELSE 0
                    ELSE CharAt(text, i) % 128

\* C19, amended: for a text of length L < MaxLength, slot i holds the low 7
\* bits of text[i mod (L+1)] when (i mod (L+1)) < L and the null character
\* otherwise; for L >= MaxLength slot i holds the low 7 bits of text[i] and
\* later characters are ignored.
C19_SlotsHoldTheLowSevenBits ==
    f_op = "getEncodedChunks" =>
        LET text == f_in[1]
            L == Len(text)
        IN  \A i \in 0..(MaxLength - 1) :
                Slot(f_out, i) =
                    IF L < MaxLength
                    THEN IF i % (L + 1) < L THEN CharAt(text, i % (L + 1)) % 128 ELSE 0
                    ELSE CharAt(text, i) % 128

\* A text of five characters that starts with 'a' | 0x80 has been encoded:
\* a null slot follows the text, and the repetition starts with 'a'
C19_Witness ==
    /\ f_op = "getEncodedChunks"
    /\ Len(f_in[1]) = 5
    /\ f_in[1][1] = 225
    /\ Slot(f_out, 5) = 0
    /\ Slot(f_out, 6) = 97
    /\ Slot(f_out, MaxLength - 1) = f_in[1][5] % 128

-----------------------------------------------------------------------------
(* Properties of the copy (checked under SpecCopy)                          *)

\* The word copy is the one taken for the arguments of the call
WordPath ==
    (f_in[1] % WordSize = 0) /\ (f_in[2] % WordSize = 0) /\ (f_in[3] % WordSize = 0)

\* Every tracked byte inside dst[0..size) holds the byte of src at the same
\* offset, and every tracked byte outside has not been written
CopiedExactly ==
    \A k \in 1..Len(f_out.buf) :
        LET offset == (k - 1) - GuardBytes
        IN  f_out.buf[k] = IF offset >= 0 /\ offset < f_in[1]
                           THEN Mem(f_in[2] + offset)
                           ELSE Uninitialized

\* C20: for every size > 0 and every alignment of source and destination,
\* copyBytesQuicklyAndUnsafely(size, src, dst) terminates and leaves
\* dst[0..size) equal to src[0..size) while writing no byte outside
\* dst[0..size), whether it took the word copy or the byte copy; while it
\* runs it writes inside dst[0..size) only, and the result is the one that
\* sample() gets from it.
C20_CopyIsExactAndTerminates ==
    /\ [](f_op = "return" =>
            /\ CopiedExactly
            /\ f_out.buf = copyBytesQuicklyAndUnsafely(f_in[1], f_in[2], f_in[3],
                               CopyBase(f_in[3]), Unwritten(f_in[1])))
    /\ [](f_op \in {"words", "bytes"} =>
            \A k \in 1..Len(f_out.buf) :
                (k <= GuardBytes \/ k > GuardBytes + f_in[1])
                    => f_out.buf[k] = Uninitialized)
    /\ <>(f_op = "return")

\* A call with two words to copy between aligned addresses has returned
C20_Witness ==
    /\ f_op = "return"
    /\ WordPath
    /\ f_in[1] = 2 * WordSize
    /\ CopiedExactly

-----------------------------------------------------------------------------
(* Properties of a stack that is pushed beyond its capacity                 *)
(* (checked under SpecOverflow)                                             *)

\* C21: with assertions enabled, a pushVariable on a Category whose stack
\* already holds MaxNumberOfCoexistentProbesOfSameCategory locations traps
\* with an assertion failure instead of continuing (its push_back stores
\* nothing and the program goes no further), so in every reachable state
\* that is not trapped the stack of live variables holds at most
\* MaxNumberOfCoexistentProbesOfSameCategory entries.
C21_OverflowTrapsInCheckedBuild ==
    /\ [](~trapped =>
            \A c \in ProbeCategories :
                Len(live_variable_stack_[c]) <= MaxNumberOfCoexistentProbesOfSameCategory)
    /\ [][\A t \in Threads :
            (pc[t] = "p_push" /\ pc'[t] # "p_push")
                => Len(live_variable_stack_[t_this[t]])
                       < MaxNumberOfCoexistentProbesOfSameCategory]_vars
    /\ [][(~trapped /\ trapped')
            => live_variable_stack_' = live_variable_stack_]_vars
    /\ [][~trapped]_vars

\* The assertion has failed in the push of one Probe more than the stack holds
C21_Witness ==
    /\ trapped
    /\ pc[MainThread] = "p_push"
    /\ Len(live_variable_stack_[t_this[MainThread]])
           = MaxNumberOfCoexistentProbesOfSameCategory
    /\ Len(handles[MainThread]) = MaxNumberOfCoexistentProbesOfSameCategory + 1

\* C22 (checked under SpecRelease): in a build without assertions where the
\* overflowing push_back stores nothing, exceeding
\* MaxNumberOfCoexistentProbesOfSameCategory makes nested variables sample
\* incorrectly only until the overflowing probe is removed: once no more
\* than MaxNumberOfCoexistentProbesOfSameCategory probes of the Category are
\* alive, the cached top is the location of the youngest live probe and
\* sample() returns its bytes, the stack holds the live probes' locations,
\* and every pop finds an element to remove.
C22_RecoversWhenOverflowingProbeIsGone ==
    /\ \A c \in ProbeCategories :
          (Updating(c) = {}
              /\ Len(pushed[c]) <= MaxNumberOfCoexistentProbesOfSameCategory)
          => /\ live_variable_stack_top_[c] = Youngest(pushed[c])
             /\ live_variable_stack_[c] = pushed[c]
    /\ \A t \in Samplers :
          (pc[t] = "s_done"
              /\ s_depth_at_cs[t] <= MaxNumberOfCoexistentProbesOfSameCategory)
          => s_out[t] = IF s_expect[t] = NULL THEN <<>>
                        ELSE BytesAt(s_expect[t], DataSize(t))
    /\ \A t \in Threads :
          pc[t] = "q_pop" => live_variable_stack_[t_this[t]] # <<>>

-----------------------------------------------------------------------------
(* Further properties of the stack and of sample() (checked under Spec)     *)

\* C23: whenever no pushVariable or popVariable is inside its critical
\* section, the cached top of every Category equals the last element of its
\* stack of live variables when the stack is not empty and is null when the
\* stack is empty (the capacity is not exceeded).
C23_CachedTopIsLastElement ==
    (\A t \in Threads : pc[t] \notin {"p_push", "p_top", "p_unlock",
                                      "q_pop", "q_top", "q_unlock"})
    => \A c \in CategoryIds :
           life[c] = "alive" =>
               live_variable_stack_top_[c] =
                   IF live_variable_stack_[c] # <<>>
                   THEN live_variable_stack_[c][Len(live_variable_stack_[c])]
                   ELSE NULL

\* No thread is inside the library; one Category has one live variable and
\* its cached top is that one, the other Category has none and a null top
C23_Witness ==
    /\ \A t \in Threads : pc[t] = "idle"
    /\ \E c \in ProbeCategories :
          /\ Len(live_variable_stack_[c]) = 1
          /\ live_variable_stack_top_[c] = live_variable_stack_[c][1]
          /\ live_variable_stack_[1 + (c % 2)] = <<>>
          /\ live_variable_stack_top_[1 + (c % 2)] = NULL

-----------------------------------------------------------------------------
(* Properties of categories of any name and type                            *)
(* (checked under SpecDeclared)                                             *)

\* C24: findFirstNonUniqueCategoryName() returns an empty Name if and only
\* if no two distinct registered categories have equal names; whenever two
\* distinct registered categories share a name (whatever that name is), the
\* result is a non-empty Name shared by two distinct categories.
C24_EmptyResultIffNamesAreUnique ==
    q_op = "firstNonUnique" =>
        /\ isEmpty(q_ret) <=> ~SharesName(Traversal)
        /\ SharesName(Traversal) =>
              /\ ~isEmpty(q_ret)
              /\ \E c, d \in Linked :
                     c # d /\ name_[c] = q_ret /\ name_[d] = q_ret

\* C25 as stated: whenever findFirstNonUniqueCategoryName() reports a name,
\* the registered categories that share that name have different
\* TypeDescriptors.
C25_ReportedDuplicatesDifferInType ==
    (q_op = "firstNonUnique" /\ ~isEmpty(q_ret)) =>
        \A c, d \in Linked :
            (c # d /\ name_[c] = q_ret /\ name_[d] = q_ret)
                => type_descriptor_[c] # type_descriptor_[d]

\* C25, amended: whenever findFirstNonUniqueCategoryName() reports a name,
\* two distinct registered categories share that name; their TypeDescriptors
\* differ when both are categories of Probe types, while two objects of a
\* user's subclass of Category that share their name and their
\* TypeDescriptor are reported as well.
C25_ReportedNameIsSharedByTwo ==
    (q_op = "firstNonUnique" /\ ~isEmpty(q_ret)) =>
        /\ \E c, d \in Linked : c # d /\ name_[c] = q_ret /\ name_[d] = q_ret
        /\ \A c, d \in Linked \cap ProbeCategoryObjects :
              (c # d /\ name_[c] = q_ret /\ name_[d] = q_ret)
                  => type_descriptor_[c] # type_descriptor_[d]

\* The reported name is that of the categories of two Probe types, and also
\* that of two objects of a user's subclass with one TypeDescriptor
C25_Witness ==
    /\ q_op = "firstNonUnique"
    /\ ~isEmpty(q_ret)
    /\ \E c, d \in Linked \cap ProbeCategoryObjects :
          /\ c # d /\ name_[c] = q_ret /\ name_[d] = q_ret
          /\ type_descriptor_[c] # type_descriptor_[d]
    /\ \E c, d \in Linked \ ProbeCategoryObjects :
          /\ c # d /\ name_[c] = q_ret /\ name_[d] = q_ret
          /\ type_descriptor_[c] = type_descriptor_[d]

\* C26 as stated: every Category that is ever linked in the registry
\* (whether created through a Probe or by a user's subclass of Category) has
\* a TypeDescriptor with element_size > 0, number_of_elements > 0 and
\* element_size * number_of_elements <= MaxVariableSize, and that descriptor
\* never changes after construction.
C26_EveryDescriptorIsTraceable ==
    /\ [](\A c \in Linked :
            /\ type_descriptor_[c].element_size > 0
            /\ type_descriptor_[c].number_of_elements > 0
            /\ type_descriptor_[c].element_size * type_descriptor_[c].number_of_elements
                   <= MaxVariableSize)
    /\ [][\A c \in CategoryIds :
            life[c] # "unborn" => type_descriptor_'[c] = type_descriptor_[c]]_vars

\* C26, amended: every Category created through a Probe has a
\* TypeDescriptor with element_size > 0, number_of_elements > 0 and
\* element_size * number_of_elements <= MaxVariableSize; a Category of a
\* user's subclass has the TypeDescriptor its constructor was given, whatever
\* it is; and no descriptor changes after construction.
C26_ProbeDescriptorsAreTraceable ==
    /\ [](\A c \in ProbeCategoryObjects :
            /\ type_descriptor_[c].element_size > 0
            /\ type_descriptor_[c].number_of_elements > 0
            /\ type_descriptor_[c].element_size * type_descriptor_[c].number_of_elements
                   <= MaxVariableSize)
    /\ [][\A c \in CategoryIds :
            life[c] # "unborn" => type_descriptor_'[c] = type_descriptor_[c]]_vars

\* The category of a Probe type whose variable has exactly MaxVariableSize
\* bytes is linked, next to an object of a user's subclass with
\* TypeDescriptor(), after another object was destroyed
C26_Witness ==
    /\ \E c \in Linked \cap ProbeCategoryObjects :
          type_descriptor_[c].element_size * type_descriptor_[c].number_of_elements
              = MaxVariableSize
    /\ \E c \in Linked \ ProbeCategoryObjects :
          type_descriptor_[c] = DefaultTypeDescriptor
    /\ \E c \in CategoryIds : life[c] = "dead"

-----------------------------------------------------------------------------
(* Further properties of sample(), pushVariable() and popVariable()         *)
(* (checked under Spec)                                                     *)

\* C27: in every execution of sample(), the output buffer is sized before
\* the critical section is entered (it has its full size when the lock is
\* requested and all through the critical section) and is cleared, when
\* nothing was copied, only after the critical section has been left; inside
\* the critical section the only steps are the clock read, the test of the
\* cached top and the byte copy, in this order, and none of them changes the
\* size of the buffer.
C27_BufferIsSizedAndClearedOutside ==
    /\ [](\A t \in Threads :
            pc[t] \in {"s_lock", "s_time", "s_test", "s_copy", "s_unlock", "s_clear"}
                => Len(s_out[t]) = DataSize(t))
    /\ [][\A t \in Threads :
            /\ Len(s_out'[t]) # Len(s_out[t])
                  => /\ cs_owner # t /\ cs_owner' # t
                     /\ pc[t] \in {"idle", "s_clear", "s_done"}
            /\ pc[t] = "s_time" /\ pc'[t] # pc[t]
                  => /\ pc'[t] = "s_test"
                     /\ s_ts'[t] = now
                     /\ s_out'[t] = s_out[t] /\ s_success'[t] = s_success[t]
            /\ pc[t] = "s_test" /\ pc'[t] # pc[t]
                  => /\ pc'[t] = IF live_variable_stack_top_[t_this[t]] # NULL
                                 THEN "s_copy" ELSE "s_unlock"
                     /\ <<s_ts[t], s_out[t], s_success[t]>>'
                            = <<s_ts[t], s_out[t], s_success[t]>>
            /\ pc[t] = "s_copy" /\ pc'[t] # pc[t]
                  => /\ pc'[t] = "s_unlock"
                     /\ s_success'[t]
                     /\ s_ts'[t] = s_ts[t]
            /\ pc[t] = "s_unlock" /\ pc'[t] # pc[t]
                  => /\ pc'[t] = "s_clear"
                     /\ cs_owner = t /\ cs_owner' = NoThread
                     /\ <<s_ts[t], s_out[t], s_success[t]>>'
                            = <<s_ts[t], s_out[t], s_success[t]>>
            /\ (cs_owner # t /\ cs_owner' = t /\ pc[t] = "s_lock")
                  => pc'[t] = "s_time"]_vars

\* sample() has left its critical section without a copy, and the buffer
\* still has its size
C27_Witness ==
    \E t \in Threads :
        /\ pc[t] = "s_clear"
        /\ ~s_success[t]
        /\ cs_owner # t
        /\ DataSize(t) > 0
        /\ Len(s_out[t]) = DataSize(t)

\* C28: getTimeFromCriticalSection() is invoked by the library only while a
\* critical section is held, and exactly once per sample() call: a call that
\* has left its critical section has invoked it once, one that has not yet
\* reached the clock read has not invoked it; pushVariable and popVariable
\* never invoke it.
C28_ClockIsReadOnceInsideCriticalSection ==
    /\ [](\A t \in Threads :
            /\ pc[t] \in {"s_lock", "s_time"} => s_clock_reads[t] = 0
            /\ pc[t] \in {"s_test", "s_copy", "s_unlock", "s_clear", "s_done"}
                   => s_clock_reads[t] = 1
            /\ pc[t] \in {"idle", "p_lock", "p_push", "p_top", "p_unlock",
                          "q_lock", "q_pop", "q_top", "q_unlock"}
                   => s_clock_reads[t] = 0)
    /\ [][\A t \in Threads :
            s_clock_reads'[t] > s_clock_reads[t]
                => (cs_owner = t /\ cs_owner' = t /\ s_ts'[t] = now)]_vars

\* A sample() is about to return; it has read the clock once, while another
\* thread was waiting for the critical section of its push
C28_Witness ==
    \E t \in Threads :
        /\ pc[t] = "s_done"
        /\ s_clock_reads[t] = 1
        /\ \E u \in Threads : pc[u] = "p_lock"

-----------------------------------------------------------------------------
(* Properties of the program with registry queries (checked under           *)
(* SpecQueried)                                                             *)

PushPopStates == {"p_lock", "p_push", "p_top", "p_unlock",
                  "q_lock", "q_pop", "q_top", "q_unlock"}
SampleStates == {"s_lock", "s_time", "s_test", "s_copy", "s_unlock", "s_clear", "s_done"}

\* Thread t takes a step of a call whose states are in the given set
StepsWithin(t, states) ==
    /\ pc'[t] # pc[t]
    /\ (pc[t] \in states \/ pc'[t] \in states)

\* C29: every step of pushVariable() and popVariable() leaves the list of
\* the registry (its members and their order, names and descriptors) and the
\* stack and cached top of every Category other than the one it was called
\* on as they were; every step of sample() leaves the list and every stack
\* and cached top as they were; and a call of findCategoryByName(),
\* findCategoryByIndex(), countCategories() or
\* findFirstNonUniqueCategoryName() changes nothing but its own result.
C29_OperationsChangeOnlyTheirOwnCategory ==
    [][ /\ \A t \in Threads :
              StepsWithin(t, PushPopStates) =>
                  /\ UNCHANGED listVars
                  /\ \A c \in CategoryIds :
                        c # t_this[t] =>
                            /\ live_variable_stack_'[c] = live_variable_stack_[c]
                            /\ live_variable_stack_top_'[c] = live_variable_stack_top_[c]
        /\ \A t \in Threads :
              StepsWithin(t, SampleStates) => UNCHANGED registryVars
        /\ queryVars' # queryVars =>
              UNCHANGED <<registryVars, threadVars, historyVars>> ]_vars

\* Every probe category has a live variable, a query has returned and a
\* sample() has finished
C29_Witness ==
    /\ \A c \in ProbeCategories : live_variable_stack_[c] # <<>>
    /\ q_op # "none"
    /\ \E t \in Samplers : pc[t] = "s_done"

-----------------------------------------------------------------------------
(* Probes of one Category in two threads (checked under Spec)               *)

\* The addresses of the Probes of Category c that exist: constructed, or
\* under construction or destruction, by any thread
LiveHandles(c) ==
    UNION { { handles[t][i].location :
                i \in { j \in 1..Len(handles[t]) : handles[t][j].category = c } } :
            t \in Threads }

\* C30: with every thread destroying its own Probes in reverse order of their
\* construction, whenever no pushVariable() or popVariable() holds the
\* critical section, the cached top of every Category is null or the address
\* of a Probe that has not been destroyed.
C30_CachedTopIsLiveHandle ==
    (cs_owner = NoThread \/ pc[cs_owner] \in SampleStates) =>
        \A c \in ProbeCategories :
            \/ live_variable_stack_top_[c] = NULL
            \/ live_variable_stack_top_[c] \in LiveHandles(c)

-----------------------------------------------------------------------------
(* The program of Spec under a scheduler that lets every thread run: the    *)
(* main thread constructs and destroys Probes, thread 2 samples, and a      *)
(* thread that can take a step inside the library eventually takes one.     *)

\* A step of thread t that constructs a CriticalSectionLocker
AcquireStep(t) ==
    \/ PushAcquire(t)
    \/ PopAcquire(t)
    \/ SampleAcquire(t)

\* A step of thread t inside pushVariable(), popVariable() or sample()
LibraryStep(t) ==
    \/ AcquireStep(t)
    \/ PushBack(t)
    \/ PushTop(t)
    \/ PushRelease(t)
    \/ PopBack(t)
    \/ PopTop(t)
    \/ PopRelease(t)
    \/ SampleTime(t)
    \/ SampleTest(t)
    \/ SampleCopy(t)
    \/ SampleRelease(t)
    \/ SampleFinish(t)

NextScheduled ==
    \/ \E c \in ProbeCategories : PushCall(MainThread, c)
    \/ PopCall(MainThread)
    \/ \E t \in Samplers, c \in ProbeCategories : SampleCall(t, c)
    \/ \E t \in Threads : LibraryStep(t)
    \/ \E t \in Samplers : SampleReturn(t)
    \/ Tick

SpecScheduled ==
    /\ Init
    /\ [][NextScheduled]_vars
    /\ \A t \in Threads : WF_vars(LibraryStep(t))

-----------------------------------------------------------------------------
(* Properties of the scheduled program (checked under SpecScheduled)        *)

\* Thread t is inside a call of pushVariable(), popVariable() or sample()
InCall(t) == pc[t] \in PushPopStates \cup (SampleStates \ {"s_done"})

\* The call of thread t has returned and t does not hold the critical section
Returned(t) == pc[t] \in {"idle", "s_done"} /\ cs_owner # t

\* No thread constructs a locker while it holds the critical section
NoAcquireWhileHeld ==
    \A t \in Threads : pc[t] \in {"p_lock", "q_lock", "s_lock"} => cs_owner # t

\* C31 as stated: with weak fairness for every thread, every call of
\* pushVariable(), popVariable() and sample() eventually returns with the
\* critical section released, and no call acquires the critical section
\* while holding it.
C31_EveryCallReturnsUnderWeakFairness ==
    /\ \A t \in Threads : InCall(t) ~> Returned(t)
    /\ []NoAcquireWhileHeld

\* C31 amended: the same, provided that a thread that can acquire the
\* critical section again and again eventually acquires it (strong fairness
\* of the acquisition).
C31_EveryCallReturnsUnderStrongAcquisition ==
    (\A t \in Threads : SF_vars(AcquireStep(t))) =>
        /\ \A t \in Threads : InCall(t) ~> Returned(t)
        /\ []NoAcquireWhileHeld

\* The main thread waits for the critical section that a sampling thread
\* holds
C31_Witness ==
    /\ pc[MainThread] \in {"p_lock", "q_lock"}
    /\ cs_owner \in Samplers

=============================================================================
